---------------------------- MODULE Spec2Model ----------------------------
(***************************************************************************)
(* Model of the spades rules engine: the server side game::State (the      *)
(* public state plus the four private hands) driven through handle_event.  *)
(*                                                                         *)
(* Encodings.  Player::One..Four are their to_index() 0..3.  A Card is its *)
(* to_index() in 0..51 (suite = index / 13, value = index % 13; suite 0 is *)
(* Spade).  Option<T> is a sequence: <<>> is None, <<x>> is Some(x).       *)
(* Bid is <<"BlindNil">>, <<"Nil">> or <<"Take", n>>.  game::Status is     *)
(* <<"GameOver">>, <<"WaitingForBid", p>>, <<"WaitingForNilConfirmation",  *)
(* p>> or <<"WaitingForPlay", p>>; trick::Status is <<"Waiting", p>> or    *)
(* <<"Won", p, c>>.  Result<(), String> is a record [ok, err, ...].        *)
(***************************************************************************)
EXTENDS Integers, Sequences, FiniteSets

\* ------------------------------------------------------------------ bounds
\* Accepted bids and plays of a session (a round takes NumPlayers bids and
\* NumCards plays): once that many were accepted, clients submit no further
\* bid, confirmation or play unless the game is over.
MaxSteps == 57
\* At most this many players ask to see their cards within one round.
MaxSeen == 1
\* At most this many Nil bids are submitted for confirmation within one round.
MaxNil == 1
\* The Take(n) count the clients submit.
BigTake == 7
\* Sessions of several rounds: the accepted bids and plays after which the
\* clients stop, and the Take(n) count they bid.
MaxRoundSteps == 113
SmallTake == 3
\* Rounds played in the sessions in which only the awaited player acts and
\* every bid is tried.
MaxTurnRounds == 1
\* Scores handed to get_winning_team_index: tens from TensBelow under zero to
\* TensAbove over the winning mark, extras zero or MaxExtras.
\* A Trick on its own is played with the TrickValues lowest cards of the
\* first TrickSuites suites.
TrickValues == 3
TrickSuites == 3
\* Hands handed to get_playable_cards are drawn from the HandValues lowest
\* cards of the first HandSuites suites.
HandValues == 2
HandSuites == 3
\* Bids handed to Bid::get_compatibility_error claim up to MaxBidCount
\* tricks (Take holds a u8).
MaxBidCount == 250
\* Sessions of clients end after MaxViewSteps accepted bids and plays.
MaxViewSteps == 57
\* Scores handed to Score::add_extras and to the addition of scores have
\* tens within ExtTens of zero; up to MaxAddExtras extras are added.
ExtTens == 20
MaxAddExtras == 40
TensBelow == 5
TensAbove == 10
MaxExtras == 9

\* ------------------------------------------------------- program constants
NumPlayers == 4
NumValues == 13
NumCards == 52
TricksPerRound == 13
MinTeamTricks == 4
MaxTeamBid == 13
HighBidThreshold == 10
HighBidBonus == 10
NilBonus == 10
BlindNilBonus == 20
WinTens == 50
MercyLead == 50
ExtrasBase == 10
ExtrasPenalty == 10
U8 == 256

Players == 0..(NumPlayers - 1)
Cards == 0..(NumCards - 1)
Spade == 0

None == <<>>
Some(x) == <<x>>
IsSome(o) == o # <<>>
Unwrap(o) == o[1]

\* --------------------------------------------------------------- player.rs
next(p) == (p + 1) % NumPlayers
teammate(p) == next(next(p))
\* Mutant of PlayerIter: the rotation runs against the order of play.
PlayerIter_Reverse(start) ==
  [i \in 1..NumPlayers |-> (start + NumPlayers - (i - 1)) % NumPlayers]
\* Player::iter(): the four players in order of play starting at start.
PlayerIter(start) == [i \in 1..NumPlayers |-> (start + i - 1) % NumPlayers]

\* ----------------------------------------------------------------- card.rs
SuiteOf(c) == c \div NumValues
ValueOf(c) == c % NumValues
\* card::Set::suite(suite)
SetSuite(s) == (s * NumValues)..(s * NumValues + NumValues - 1)

\* ---------------------------------------------------------- scoring/bid.rs
BlindNil == <<"BlindNil">>
Nil == <<"Nil">>
Take(n) == <<"Take", n>>
IsTake(b) == b[1] = "Take"

\* Mutant of is_any_nil: a blind nil is not taken for a nil.
is_any_nil_OnlyNil(b) == b[1] = "Nil"
is_any_nil(b) == b[1] \in {"BlindNil", "Nil"}
nil_bonus(b) ==
  IF b[1] = "BlindNil" THEN BlindNilBonus
  ELSE IF b[1] = "Nil" THEN NilBonus ELSE 0
num_tricks(b) == IF IsTake(b) THEN b[2] ELSE 0
Max(a, b) == IF a >= b THEN a ELSE b
num_team_tricks(b1, b2) ==
  Max(MinTeamTricks, (num_tricks(b1) + num_tricks(b2)) % U8)
high_trick_bonus(b1, b2) ==
  IF (num_tricks(b1) + num_tricks(b2)) % U8 >= HighBidThreshold
  THEN HighBidBonus ELSE 0
get_bid_value(b1, b2) ==
  (num_team_tricks(b1, b2) + nil_bonus(b1) + nil_bonus(b2)
     + high_trick_bonus(b1, b2)) % U8

ErrDoubleNil == "Both players in team can not bid nil or blind nil."
ErrOver13 == "Can not bid more than 13 tricks as a team."
\* Bid::get_compatibility_error: None or Some(message).  The team total is
\* an 8-bit sum.
get_compatibility_error(bid, teammate_bid) ==
  IF IsSome(teammate_bid) /\ is_any_nil(Unwrap(teammate_bid))
       /\ is_any_nil(bid)
  THEN Some(ErrDoubleNil)
  ELSE IF IsTake(bid)
            /\ (bid[2] + (IF IsSome(teammate_bid) /\ IsTake(Unwrap(teammate_bid))
                          THEN Unwrap(teammate_bid)[2] ELSE 0)) % U8
                 > MaxTeamBid
       THEN Some(ErrOver13)
       ELSE None

\* -------------------------------------------------------- scoring/score.rs
ScoreDefault == [tens |-> 0, extras |-> 0]
add_tens(s, n) == [s EXCEPT !.tens = @ + n]
sub_tens(s, n) == [s EXCEPT !.tens = @ - n]
\* Mutant of CarryExtras: ten extras are worth one more in the tens.
RECURSIVE CarryExtras_AddsOne(_)
CarryExtras_AddsOne(s) ==
  IF s.extras >= ExtrasBase
  THEN CarryExtras_AddsOne([tens |-> s.tens + 1,
                            extras |-> s.extras - ExtrasBase])
  ELSE s
\* The while loop of Score::add_extras.
RECURSIVE CarryExtras(_)
CarryExtras(s) ==
  IF s.extras >= ExtrasBase
  THEN CarryExtras([tens |-> s.tens - ExtrasPenalty,
                    extras |-> s.extras - ExtrasBase])
  ELSE s
add_extras(s, n) == CarryExtras([s EXCEPT !.extras = (@ + n) % U8])
\* Score::new
ScoreNew(tens, extras) == add_extras(add_tens(ScoreDefault, tens), extras)
\* Mutant of ScoreAdd: the extras are added without the loop of add_extras.
ScoreAdd_NoCarry(s, other) ==
  [tens |-> s.tens + other.tens, extras |-> (s.extras + other.extras) % U8]
\* impl AddAssign for Score
ScoreAdd(s, other) ==
  add_extras([s EXCEPT !.tens = @ + other.tens], other.extras)

\* --------------------------------------------- scoring/team_round_result.rs
create_pair(bids, tricks_taken) ==
  << [bids |-> <<bids[0], bids[2]>>,
      tricks_taken |-> <<tricks_taken[0], tricks_taken[2]>>],
     [bids |-> <<bids[1], bids[3]>>,
      tricks_taken |-> <<tricks_taken[1], tricks_taken[3]>>] >>

\* Mutant of get_score: a failed round earns no extras.
get_score_NoExtrasOnFailure(r) ==
  LET taken == (r.tricks_taken[1] + r.tricks_taken[2]) % U8
      required == num_team_tricks(r.bids[1], r.bids[2])
      failed == \/ taken < required
                \/ (is_any_nil(r.bids[1]) /\ r.tricks_taken[1] # 0)
                \/ (is_any_nil(r.bids[2]) /\ r.tricks_taken[2] # 0)
      value == get_bid_value(r.bids[1], r.bids[2])
  IN IF failed THEN sub_tens(ScoreDefault, value)
     ELSE IF taken > required
          THEN add_extras(add_tens(ScoreDefault, value), taken - required)
          ELSE add_tens(ScoreDefault, value)
\* TeamRoundResult::get_score
get_score(r) ==
  LET taken == (r.tricks_taken[1] + r.tricks_taken[2]) % U8
      required == num_team_tricks(r.bids[1], r.bids[2])
      failed == \/ taken < required
                \/ (is_any_nil(r.bids[1]) /\ r.tricks_taken[1] # 0)
                \/ (is_any_nil(r.bids[2]) /\ r.tricks_taken[2] # 0)
      value == get_bid_value(r.bids[1], r.bids[2])
      base == IF failed THEN sub_tens(ScoreDefault, value)
              ELSE add_tens(ScoreDefault, value)
  IN IF taken > required THEN add_extras(base, taken - required) ELSE base

\* ---------------------------------------------------------- scoring/mod.rs
\* Mutant of get_winning_team_index: level tens of 50 or more win for the
\* team asked first.
get_winning_team_index_TieWins(scores) ==
  IF scores[1].tens >= WinTens /\ scores[1].tens >= scores[2].tens THEN Some(0)
  ELSE IF scores[2].tens >= WinTens /\ scores[2].tens >= scores[1].tens
       THEN Some(1)
  ELSE IF scores[1].tens - scores[2].tens >= MercyLead THEN Some(0)
  ELSE IF scores[2].tens - scores[1].tens >= MercyLead THEN Some(1)
  ELSE None
\* get_winning_team_index: Some(0), Some(1) or None.
get_winning_team_index(scores) ==
  IF scores[1].tens >= WinTens /\ scores[1].tens > scores[2].tens THEN Some(0)
  ELSE IF scores[2].tens >= WinTens /\ scores[2].tens > scores[1].tens
       THEN Some(1)
  ELSE IF scores[1].tens - scores[2].tens >= MercyLead THEN Some(0)
  ELSE IF scores[2].tens - scores[1].tens >= MercyLead THEN Some(1)
  ELSE None

\* ---------------------------------------------------------------- trick.rs
TrickNew(start_player) ==
  [start_player |-> start_player, cards |-> [p \in Players |-> None]]

\* The first player of the rotation, from position i on, whose slot is empty.
RECURSIVE FirstEmpty(_, _, _)
FirstEmpty(cards, order, i) ==
  IF i > NumPlayers THEN None
  ELSE IF ~IsSome(cards[order[i]]) THEN Some(order[i])
  ELSE FirstEmpty(cards, order, i + 1)

\* Mutant of FindWinner: the higher value wins whatever the suites.
RECURSIVE FindWinner_HighestValue(_, _, _, _)
FindWinner_HighestValue(cards, order, i, winner) ==
  IF i > NumPlayers THEN winner
  ELSE LET player == order[i]
           card == Unwrap(cards[player])
       IN IF ValueOf(card) > ValueOf(winner[2])
          THEN FindWinner_HighestValue(cards, order, i + 1, <<player, card>>)
          ELSE FindWinner_HighestValue(cards, order, i + 1, winner)
\* The winner loop of Trick::get_status over positions i..4 of the rotation.
RECURSIVE FindWinner(_, _, _, _)
FindWinner(cards, order, i, winner) ==
  IF i > NumPlayers THEN winner
  ELSE LET player == order[i]
           card == Unwrap(cards[player])
       IN IF SuiteOf(card) = SuiteOf(winner[2])
          THEN IF ValueOf(card) > ValueOf(winner[2])
               THEN FindWinner(cards, order, i + 1, <<player, card>>)
               ELSE FindWinner(cards, order, i + 1, winner)
          ELSE IF SuiteOf(card) = Spade
               THEN FindWinner(cards, order, i + 1, <<player, card>>)
               ELSE FindWinner(cards, order, i + 1, winner)

TrickGetStatus(t) ==
  LET order == PlayerIter(t.start_player)
      waiting == FirstEmpty(t.cards, order, 1)
  IN IF IsSome(waiting) THEN <<"Waiting", Unwrap(waiting)>>
     ELSE LET w == FindWinner(t.cards, order, 2,
                              <<t.start_player, Unwrap(t.cards[t.start_player])>>)
          IN <<"Won", w[1], w[2]>>

\* Trick::get_suite
TrickGetSuite(t) ==
  IF IsSome(t.cards[t.start_player])
  THEN Some(SuiteOf(Unwrap(t.cards[t.start_player]))) ELSE None

ErrTrickWon == "Can not play a card into a trick that is already won."
ErrTrickTurn == "Can not play a card when it is not your turn"
\* Mutant of TrickPlayCard: the card is stored before the turn is checked.
TrickPlayCard_WritesFirst(t, player, card) ==
  LET st == TrickGetStatus(t)
  IN IF st[1] = "Won" THEN [ok |-> FALSE, err |-> ErrTrickWon, trick |-> t]
     ELSE [ok |-> st[2] = player,
           err |-> IF st[2] = player THEN "" ELSE ErrTrickTurn,
           trick |-> [t EXCEPT !.cards[player] = Some(card)]]
\* Mutant of TrickPlayCard: any player whose slot is empty may play.
TrickPlayCard_AnyEmptySlot(t, player, card) ==
  LET st == TrickGetStatus(t)
  IN IF st[1] = "Won" THEN [ok |-> FALSE, err |-> ErrTrickWon, trick |-> t]
     ELSE IF IsSome(t.cards[player])
          THEN [ok |-> FALSE, err |-> ErrTrickTurn, trick |-> t]
          ELSE [ok |-> TRUE, err |-> "",
                trick |-> [t EXCEPT !.cards[player] = Some(card)]]
\* Trick::play_card: [ok, err, trick].
TrickPlayCard(t, player, card) ==
  LET st == TrickGetStatus(t)
  IN IF st[1] = "Won" THEN [ok |-> FALSE, err |-> ErrTrickWon, trick |-> t]
     ELSE IF st[2] # player
          THEN [ok |-> FALSE, err |-> ErrTrickTurn, trick |-> t]
          ELSE [ok |-> TRUE, err |-> "",
                trick |-> [t EXCEPT !.cards[player] = Some(card)]]

\* Mutant of get_playable_cards: following suite is not required.
get_playable_cards_NoFollow(t, hand, is_trump_broken) ==
  IF IsSome(TrickGetSuite(t)) THEN hand
  ELSE LET non_spades == hand \ SetSuite(Spade)
       IN IF is_trump_broken \/ non_spades = {} THEN hand ELSE non_spades
\* Mutant of get_playable_cards: without broken trump a Spade is never led.
get_playable_cards_NoSpadeLead(t, hand, is_trump_broken) ==
  LET suite == TrickGetSuite(t)
  IN IF IsSome(suite)
     THEN LET same_suite == hand \cap SetSuite(Unwrap(suite))
          IN IF same_suite = {} THEN hand ELSE same_suite
     ELSE LET non_spades == hand \ SetSuite(Spade)
          IN IF is_trump_broken THEN hand ELSE non_spades
\* Mutant of get_playable_cards: a hand void in the suite led has no card
\* to play.
get_playable_cards_VoidBlocks(t, hand, is_trump_broken) ==
  LET suite == TrickGetSuite(t)
  IN IF IsSome(suite)
     THEN hand \cap SetSuite(Unwrap(suite))
     ELSE LET non_spades == hand \ SetSuite(Spade)
          IN IF is_trump_broken \/ non_spades = {} THEN hand ELSE non_spades
\* Trick::get_playable_cards
get_playable_cards(t, hand, is_trump_broken) ==
  LET suite == TrickGetSuite(t)
  IN IF IsSome(suite)
     THEN LET same_suite == hand \cap SetSuite(Unwrap(suite))
          IN IF same_suite = {} THEN hand ELSE same_suite
     ELSE LET non_spades == hand \ SetSuite(Spade)
          IN IF is_trump_broken \/ non_spades = {} THEN hand ELSE non_spades

\* ---------------------------------------------------- game/public_state.rs
\* impl Default for PublicState
PublicStateDefault ==
  [ scores |-> <<ScoreDefault, ScoreDefault>>,
    round_results |-> <<>>,
    dealer |-> 0,
    seen_cards |-> [p \in Players |-> FALSE],
    trump_broken |-> FALSE,
    pending_nil_player |-> None,
    nil_rejected |-> [p \in Players |-> FALSE],
    bids |-> [p \in Players |-> None],
    tricks_taken |-> [p \in Players |-> 0],
    trick |-> TrickNew(1) ]

\* Mutant of FirstNoBid: the scan starts one seat early, at the dealer.
RECURSIVE FirstNoBid_FromDealer(_, _, _)
FirstNoBid_FromDealer(bids, order, i) ==
  LET player == IF i > NumPlayers THEN 0
                ELSE (order[i] + NumPlayers - 1) % NumPlayers
  IN IF i > NumPlayers THEN None
     ELSE IF ~IsSome(bids[player]) THEN Some(player)
     ELSE FirstNoBid_FromDealer(bids, order, i + 1)
\* The bid loop of PublicState::get_status: the first player of the rotation
\* without a bid.
RECURSIVE FirstNoBid(_, _, _)
FirstNoBid(bids, order, i) ==
  IF i > NumPlayers THEN None
  ELSE IF ~IsSome(bids[order[i]]) THEN Some(order[i])
  ELSE FirstNoBid(bids, order, i + 1)

GameOver == <<"GameOver">>
Panic == <<"Panic">>
WaitingForBid(p) == <<"WaitingForBid", p>>
WaitingForNilConfirmation(p) == <<"WaitingForNilConfirmation", p>>
WaitingForPlay(p) == <<"WaitingForPlay", p>>

\* PublicState::get_status; Panic stands for the panic!() arm.
get_status(s) ==
  IF IsSome(get_winning_team_index(s.scores)) THEN GameOver
  ELSE IF IsSome(s.pending_nil_player)
       THEN WaitingForNilConfirmation(teammate(Unwrap(s.pending_nil_player)))
  ELSE LET nobid == FirstNoBid(s.bids, PlayerIter(next(s.dealer)), 1)
       IN IF IsSome(nobid) THEN WaitingForBid(Unwrap(nobid))
          ELSE LET st == TrickGetStatus(s.trick)
               IN IF st[1] = "Waiting" THEN WaitingForPlay(st[2]) ELSE Panic

ErrNoBid == "Internal error, no bid for player"
\* PublicState::get_bids: [ok, bids].
get_bids(s) ==
  IF \E p \in Players : ~IsSome(s.bids[p])
  THEN [ok |-> FALSE, bids |-> [p \in Players |-> Nil]]
  ELSE [ok |-> TRUE, bids |-> [p \in Players |-> Unwrap(s.bids[p])]]

SumTricks(tricks_taken) ==
  (tricks_taken[0] + tricks_taken[1] + tricks_taken[2] + tricks_taken[3]) % U8

\* Mutant of EndRound: the new dealer, not the seat after, leads the next
\* round, and the seen-cards flags outlive the round.
EndRound_DealerLeads(s) ==
  LET b == get_bids(s)
      results == create_pair(b.bids, s.tricks_taken)
  IN IF ~b.ok THEN [ok |-> FALSE, err |-> ErrNoBid, state |-> s]
     ELSE [ok |-> TRUE, err |-> "",
           state |->
             [ scores |-> <<ScoreAdd(s.scores[1], get_score(results[1])),
                            ScoreAdd(s.scores[2], get_score(results[2]))>>,
               round_results |-> Append(s.round_results, results),
               dealer |-> next(s.dealer),
               seen_cards |-> s.seen_cards,
               trump_broken |-> FALSE,
               pending_nil_player |-> s.pending_nil_player,
               nil_rejected |-> [p \in Players |-> FALSE],
               bids |-> [p \in Players |-> None],
               tricks_taken |-> [p \in Players |-> 0],
               trick |-> TrickNew(next(s.dealer)) ]]

\* Mutant of EndRound: the round's scores replace the cumulative scores.
EndRound_ScoresReplaced(s) ==
  LET b == get_bids(s)
      results == create_pair(b.bids, s.tricks_taken)
  IN IF ~b.ok THEN [ok |-> FALSE, err |-> ErrNoBid, state |-> s]
     ELSE [ok |-> TRUE, err |-> "",
           state |->
             [ scores |-> <<get_score(results[1]), get_score(results[2])>>,
               round_results |-> Append(s.round_results, results),
               dealer |-> next(s.dealer),
               seen_cards |-> [p \in Players |-> FALSE],
               trump_broken |-> FALSE,
               pending_nil_player |-> s.pending_nil_player,
               nil_rejected |-> [p \in Players |-> FALSE],
               bids |-> [p \in Players |-> None],
               tricks_taken |-> [p \in Players |-> 0],
               trick |-> TrickNew(next(next(s.dealer))) ]]

\* Mutant of EndRound: the history holds the results of the last round only.
EndRound_HistoryReplaced(s) ==
  LET b == get_bids(s)
      results == create_pair(b.bids, s.tricks_taken)
  IN IF ~b.ok THEN [ok |-> FALSE, err |-> ErrNoBid, state |-> s]
     ELSE [ok |-> TRUE, err |-> "",
           state |->
             [ scores |-> <<ScoreAdd(s.scores[1], get_score(results[1])),
                            ScoreAdd(s.scores[2], get_score(results[2]))>>,
               round_results |-> <<results>>,
               dealer |-> next(s.dealer),
               seen_cards |-> [p \in Players |-> FALSE],
               trump_broken |-> FALSE,
               pending_nil_player |-> s.pending_nil_player,
               nil_rejected |-> [p \in Players |-> FALSE],
               bids |-> [p \in Players |-> None],
               tricks_taken |-> [p \in Players |-> 0],
               trick |-> TrickNew(next(next(s.dealer))) ]]

\* The end-of-round block of after_card_played, applied to the state s that
\* already holds the new trick count.
EndRound(s) ==
  LET b == get_bids(s)
      results == create_pair(b.bids, s.tricks_taken)
  IN IF ~b.ok THEN [ok |-> FALSE, err |-> ErrNoBid, state |-> s]
     ELSE [ok |-> TRUE, err |-> "",
           state |->
             [ scores |-> <<ScoreAdd(s.scores[1], get_score(results[1])),
                            ScoreAdd(s.scores[2], get_score(results[2]))>>,
               round_results |-> Append(s.round_results, results),
               dealer |-> next(s.dealer),
               seen_cards |-> [p \in Players |-> FALSE],
               trump_broken |-> FALSE,
               pending_nil_player |-> s.pending_nil_player,
               nil_rejected |-> [p \in Players |-> FALSE],
               bids |-> [p \in Players |-> None],
               tricks_taken |-> [p \in Players |-> 0],
               trick |-> TrickNew(next(next(s.dealer))) ]]

\* PublicState::is_trump_broken
is_trump_broken(s) == s.trump_broken

\* Mutant of after_card_played: the next trick is led by the old leader.
after_card_played_SameLeader(s) ==
  LET st == TrickGetStatus(s.trick)
  IN IF st[1] # "Won" THEN [ok |-> TRUE, err |-> "", state |-> s]
     ELSE LET s1 == [s EXCEPT
                       !.tricks_taken[st[2]] = (@ + 1) % U8,
                       !.trump_broken = IF SuiteOf(st[3]) = Spade THEN TRUE ELSE @,
                       !.trick = TrickNew(s.trick.start_player)]
          IN IF SumTricks(s1.tricks_taken) = TricksPerRound
             THEN EndRound(s1)
             ELSE [ok |-> TRUE, err |-> "", state |-> s1]

\* Mutant of after_card_played: trump is broken by a trick that was led
\* with a Spade.
after_card_played_BreaksOnLead(s) ==
  LET st == TrickGetStatus(s.trick)
  IN IF st[1] # "Won" THEN [ok |-> TRUE, err |-> "", state |-> s]
     ELSE LET s1 == [s EXCEPT
                       !.tricks_taken[st[2]] = (@ + 1) % U8,
                       !.trump_broken =
                          IF SuiteOf(Unwrap(s.trick.cards[s.trick.start_player]))
                               = Spade
                          THEN TRUE ELSE @,
                       !.trick = TrickNew(st[2])]
          IN IF SumTricks(s1.tricks_taken) = TricksPerRound
             THEN EndRound(s1)
             ELSE [ok |-> TRUE, err |-> "", state |-> s1]
\* Mutant of after_card_played: the trick that was won stays on the table.
after_card_played_KeepsTrick(s) ==
  LET st == TrickGetStatus(s.trick)
  IN IF st[1] # "Won" THEN [ok |-> TRUE, err |-> "", state |-> s]
     ELSE LET s1 == [s EXCEPT
                       !.tricks_taken[st[2]] = (@ + 1) % U8,
                       !.trump_broken = IF SuiteOf(st[3]) = Spade THEN TRUE ELSE @]
          IN IF SumTricks(s1.tricks_taken) = TricksPerRound
             THEN EndRound(s1)
             ELSE [ok |-> TRUE, err |-> "", state |-> s1]
\* PublicState::after_card_played: [ok, err, state].
after_card_played(s) ==
  LET st == TrickGetStatus(s.trick)
  IN IF st[1] # "Won" THEN [ok |-> TRUE, err |-> "", state |-> s]
     ELSE LET s1 == [s EXCEPT
                       !.tricks_taken[st[2]] = (@ + 1) % U8,
                       !.trump_broken = IF SuiteOf(st[3]) = Spade THEN TRUE ELSE @,
                       !.trick = TrickNew(st[2])]
          IN IF SumTricks(s1.tricks_taken) = TricksPerRound
             THEN EndRound(s1)
             ELSE [ok |-> TRUE, err |-> "", state |-> s1]

ErrNotInHand == "You can not play a card not in your hand."
ErrPlayBidding == "Can not play a card, bidding is not complete."
ErrPlayOver == "Can not play a card, the game is over."
ErrNotPlayable == "Can not play the given card."
ErrPanic == "panic"

\* Mutant of on_card_played: a Spade breaks trump as soon as it is played.
on_card_played_BreaksAtOnce(s, player, card, hand) ==
  LET status == get_status(s)
      fail(msg) == [ok |-> FALSE, err |-> msg, state |-> s, hand |-> hand]
  IN IF card \notin hand THEN fail(ErrNotInHand)
     ELSE IF status[1] \in {"WaitingForBid", "WaitingForNilConfirmation"}
          THEN fail(ErrPlayBidding)
     ELSE IF status = GameOver THEN fail(ErrPlayOver)
     ELSE IF status = Panic THEN fail(ErrPanic)
     ELSE IF card \notin get_playable_cards(s.trick, hand, s.trump_broken)
          THEN fail(ErrNotPlayable)
     ELSE LET played == TrickPlayCard(s.trick, player, card)
              s1 == [s EXCEPT !.trick = played.trick,
                              !.trump_broken = @ \/ SuiteOf(card) = Spade]
          IN IF ~played.ok
             THEN [ok |-> FALSE, err |-> played.err, state |-> s, hand |-> hand]
             ELSE LET after == after_card_played(s1)
                  IN [ok |-> after.ok, err |-> after.err, state |-> after.state,
                      hand |-> hand \ {card}]

\* Mutant of on_card_played: a finished game does not stop the play.
on_card_played_PlaysOn(s, player, card, hand) ==
  LET status == get_status(s)
      fail(msg) == [ok |-> FALSE, err |-> msg, state |-> s, hand |-> hand]
  IN IF card \notin hand THEN fail(ErrNotInHand)
     ELSE IF status[1] \in {"WaitingForBid", "WaitingForNilConfirmation"}
          THEN fail(ErrPlayBidding)
     ELSE IF status = Panic THEN fail(ErrPanic)
     ELSE IF card \notin get_playable_cards(s.trick, hand, s.trump_broken)
          THEN fail(ErrNotPlayable)
     ELSE LET played == TrickPlayCard(s.trick, player, card)
              s1 == [s EXCEPT !.trick = played.trick]
          IN IF ~played.ok
             THEN [ok |-> FALSE, err |-> played.err, state |-> s1, hand |-> hand]
             ELSE LET after == after_card_played(s1)
                  IN [ok |-> after.ok, err |-> after.err, state |-> after.state,
                      hand |-> hand \ {card}]

\* Mutant of on_card_played: the card played stays in the hand.
on_card_played_KeepsCard(s, player, card, hand) ==
  LET status == get_status(s)
      fail(msg) == [ok |-> FALSE, err |-> msg, state |-> s, hand |-> hand]
  IN IF card \notin hand THEN fail(ErrNotInHand)
     ELSE IF status[1] \in {"WaitingForBid", "WaitingForNilConfirmation"}
          THEN fail(ErrPlayBidding)
     ELSE IF status = GameOver THEN fail(ErrPlayOver)
     ELSE IF status = Panic THEN fail(ErrPanic)
     ELSE IF card \notin get_playable_cards(s.trick, hand, s.trump_broken)
          THEN fail(ErrNotPlayable)
     ELSE LET played == TrickPlayCard(s.trick, player, card)
              s1 == [s EXCEPT !.trick = played.trick]
          IN IF ~played.ok
             THEN [ok |-> FALSE, err |-> played.err, state |-> s1, hand |-> hand]
             ELSE LET after == after_card_played(s1)
                  IN [ok |-> after.ok, err |-> after.err, state |-> after.state,
                      hand |-> hand]
\* PublicState::on_card_played: [ok, err, state, hand].
on_card_played(s, player, card, hand) ==
  LET status == get_status(s)
      fail(msg) == [ok |-> FALSE, err |-> msg, state |-> s, hand |-> hand]
  IN IF card \notin hand THEN fail(ErrNotInHand)
     ELSE IF status[1] \in {"WaitingForBid", "WaitingForNilConfirmation"}
          THEN fail(ErrPlayBidding)
     ELSE IF status = GameOver THEN fail(ErrPlayOver)
     ELSE IF status = Panic THEN fail(ErrPanic)
     ELSE IF card \notin get_playable_cards(s.trick, hand, s.trump_broken)
          THEN fail(ErrNotPlayable)
     ELSE LET played == TrickPlayCard(s.trick, player, card)
              s1 == [s EXCEPT !.trick = played.trick]
          IN IF ~played.ok
             THEN [ok |-> FALSE, err |-> played.err, state |-> s1, hand |-> hand]
             ELSE LET after == after_card_played(s1)
                  IN [ok |-> after.ok, err |-> after.err, state |-> after.state,
                      hand |-> hand \ {card}]

\* Mutant of unchecked_on_card_played: a card lying in the trick is refused.
unchecked_on_card_played_NoDuplicate(s, player, card) ==
  LET status == get_status(s)
      fail(msg) == [ok |-> FALSE, err |-> msg, state |-> s]
  IN IF status[1] \in {"WaitingForBid", "WaitingForNilConfirmation"}
     THEN fail(ErrPlayBidding)
     ELSE IF status = GameOver THEN fail(ErrPlayOver)
     ELSE IF status = Panic THEN fail(ErrPanic)
     ELSE IF \E q \in Players : s.trick.cards[q] = Some(card)
          THEN fail(ErrNotInHand)
     ELSE LET played == TrickPlayCard(s.trick, player, card)
              s1 == [s EXCEPT !.trick = played.trick]
          IN IF ~played.ok THEN [ok |-> FALSE, err |-> played.err, state |-> s1]
             ELSE after_card_played(s1)
\* PublicState::unchecked_on_card_played: [ok, err, state].
unchecked_on_card_played(s, player, card) ==
  LET status == get_status(s)
      fail(msg) == [ok |-> FALSE, err |-> msg, state |-> s]
  IN IF status[1] \in {"WaitingForBid", "WaitingForNilConfirmation"}
     THEN fail(ErrPlayBidding)
     ELSE IF status = GameOver THEN fail(ErrPlayOver)
     ELSE IF status = Panic THEN fail(ErrPanic)
     ELSE LET played == TrickPlayCard(s.trick, player, card)
              s1 == [s EXCEPT !.trick = played.trick]
          IN IF ~played.ok THEN [ok |-> FALSE, err |-> played.err, state |-> s1]
             ELSE after_card_played(s1)

ErrBidTurn == "It is not your turn to bid."
ErrBlindSeen == "Can not bid blind nil as you have seen your cards."
ErrNilRejected == "You can not bid nil if your partner has already rejected your nil bid this bidding round."

\* Mutant of on_bid_settle: a Nil is recorded at once, like any other bid.
on_bid_settle_NilAtOnce(s, player, bid) ==
  IF bid = Nil /\ s.nil_rejected[player]
  THEN [ok |-> FALSE, err |-> ErrNilRejected, state |-> s]
  ELSE [ok |-> TRUE, err |-> "",
        state |-> [s EXCEPT !.bids[player] = Some(bid)]]

\* Mutant of on_bid_settle: an earlier rejection is not looked at.
on_bid_settle_IgnoresRejected(s, player, bid) ==
  IF bid = Nil
  THEN [ok |-> TRUE, err |-> "",
        state |-> [s EXCEPT !.pending_nil_player = Some(player)]]
  ELSE [ok |-> TRUE, err |-> "",
        state |-> [s EXCEPT !.bids[player] = Some(bid)]]

\* The last block of PublicState::on_bid, reached once the turn, blind nil
\* and compatibility checks have passed: [ok, err, state].
on_bid_settle(s, player, bid) ==
  IF bid = Nil
  THEN IF s.nil_rejected[player]
       THEN [ok |-> FALSE, err |-> ErrNilRejected, state |-> s]
       ELSE [ok |-> TRUE, err |-> "",
             state |-> [s EXCEPT !.pending_nil_player = Some(player)]]
  ELSE [ok |-> TRUE, err |-> "",
        state |-> [s EXCEPT !.bids[player] = Some(bid)]]

\* Mutant of on_bid: a blind nil is taken whether or not the cards were seen.
on_bid_BlindAfterSeen(s, player, bid) ==
  LET fail(msg) == [ok |-> FALSE, err |-> msg, state |-> s]
      compat == get_compatibility_error(bid, s.bids[teammate(player)])
  IN IF get_status(s) # WaitingForBid(player) THEN fail(ErrBidTurn)
     ELSE IF IsSome(compat) THEN fail(Unwrap(compat))
     ELSE on_bid_settle(s, player, bid)

\* PublicState::on_bid: [ok, err, state].
on_bid(s, player, bid) ==
  LET fail(msg) == [ok |-> FALSE, err |-> msg, state |-> s]
      compat == get_compatibility_error(bid, s.bids[teammate(player)])
  IN IF get_status(s) # WaitingForBid(player) THEN fail(ErrBidTurn)
     ELSE IF bid = BlindNil /\ s.seen_cards[player] THEN fail(ErrBlindSeen)
     ELSE IF IsSome(compat) THEN fail(Unwrap(compat))
     ELSE on_bid_settle(s, player, bid)

\* Mutant of on_cards_seen: the flag is flipped.
on_cards_seen_Flips(s, player) == [s EXCEPT !.seen_cards[player] = ~@]
\* PublicState::on_cards_seen
on_cards_seen(s, player) == [s EXCEPT !.seen_cards[player] = TRUE]

ErrNotTeammateNil == "Can not confirm a nil bid, your teammate does not have a nil bid pending."
ErrNoNilPending == "Can not confirm a nil bid, no one has a nil bid pending."

\* Mutant of nil_answered: the pending slot is cleared on a rejection only.
nil_answered_ApproveKeepsPending(s, bidding_nil, is_approved) ==
  IF is_approved
  THEN [s EXCEPT !.bids[bidding_nil] = Some(Nil)]
  ELSE [s EXCEPT !.nil_rejected[bidding_nil] = TRUE,
                 !.pending_nil_player = None]

\* Mutant of nil_answered: a rejection does not set the nil-rejected flag.
nil_answered_RejectNoFlag(s, bidding_nil, is_approved) ==
  [(IF is_approved
    THEN [s EXCEPT !.bids[bidding_nil] = Some(Nil)]
    ELSE s)
   EXCEPT !.pending_nil_player = None]

\* The accepted branch of PublicState::on_nil_approval: the state after the
\* partner of bidding_nil has answered.
nil_answered(s, bidding_nil, is_approved) ==
  [(IF is_approved
    THEN [s EXCEPT !.bids[bidding_nil] = Some(Nil)]
    ELSE [s EXCEPT !.nil_rejected[bidding_nil] = TRUE])
   EXCEPT !.pending_nil_player = None]

\* Mutant of on_nil_approval: whoever answers a pending nil is heard.
on_nil_approval_AnyPlayer(s, player, is_approved) ==
  IF IsSome(s.pending_nil_player)
  THEN [ok |-> TRUE, err |-> "",
        state |-> [(IF is_approved
                    THEN [s EXCEPT !.bids[Unwrap(s.pending_nil_player)] = Some(Nil)]
                    ELSE [s EXCEPT !.nil_rejected[Unwrap(s.pending_nil_player)] = TRUE])
                   EXCEPT !.pending_nil_player = None]]
  ELSE [ok |-> FALSE, err |-> ErrNoNilPending, state |-> s]

\* Mutant of on_nil_approval: a rejection is not remembered.
on_nil_approval_ForgetsRejection(s, player, is_approved) ==
  IF IsSome(s.pending_nil_player)
  THEN LET bidding_nil == Unwrap(s.pending_nil_player)
       IN IF teammate(bidding_nil) = player
          THEN [ok |-> TRUE, err |-> "",
                state |-> IF is_approved
                          THEN nil_answered(s, bidding_nil, TRUE)
                          ELSE [s EXCEPT !.pending_nil_player = None]]
          ELSE [ok |-> FALSE, err |-> ErrNotTeammateNil, state |-> s]
  ELSE [ok |-> FALSE, err |-> ErrNoNilPending, state |-> s]

\* PublicState::on_nil_approval: [ok, err, state].
on_nil_approval(s, player, is_approved) ==
  IF IsSome(s.pending_nil_player)
  THEN LET bidding_nil == Unwrap(s.pending_nil_player)
       IN IF teammate(bidding_nil) = player
          THEN [ok |-> TRUE, err |-> "",
                state |-> nil_answered(s, bidding_nil, is_approved)]
          ELSE [ok |-> FALSE, err |-> ErrNotTeammateNil, state |-> s]
  ELSE [ok |-> FALSE, err |-> ErrNoNilPending, state |-> s]

\* ------------------------------------------------------------- game/view.rs
\* game::Action and game::Event values.
ActWait == <<"Wait">>
ActSeeCards == <<"SeeCards">>
ActAllowNil == <<"AllowNil">>
ActRejectNil == <<"RejectNil">>
ActMakeBid(bid) == <<"MakeBid", bid>>
ActPlayCard(card) == <<"PlayCard", card>>
EventSeeCards == <<"SeeCards">>
EventMakeBid(bid) == <<"MakeBid", bid>>
EventApprovesNil(approves) == <<"ApprovesNil", approves>>
EventPlayCard(card) == <<"PlayCard", card>>

\* scoring::bid::Generator: BlindNil, Nil, Take(0), ..., Take(13).
GeneratorBids == {BlindNil, Nil} \cup {Take(n) : n \in 0..MaxTeamBid}

\* Mutant of from_public_state: the hand is put in the view seen or not.
from_public_state_AlwaysHand(player, s, hand) ==
  [player |-> player, public_state |-> s, hand |-> Some(hand)]
\* View::from_public_state: a View is [player, public_state, hand], the hand
\* an Option.
from_public_state(player, s, hand) ==
  [player |-> player, public_state |-> s,
   hand |-> IF s.seen_cards[player] THEN Some(hand) ELSE None]
\* View::new
ViewNew(player) ==
  [player |-> player, public_state |-> PublicStateDefault, hand |-> None]
\* View::get_hand
get_hand(v) == v.hand

ErrNoHand == "Can not play a card without seeing your hand."
ErrWaitOver == "Can not wait when the game is over"
ErrWaitOnYou == "Can not wait when the game is waiting on you."
ErrSeeOver == "Can not request to see your cards when the game is over"
ErrSeeSeen == "Can not request to see your cards when you can already see them."

\* Results of the View operations: [ok, err, view, event], the event an
\* Option.
ViewOk(v, event) == [ok |-> TRUE, err |-> "", view |-> v, event |-> event]
ViewErr(v, msg) == [ok |-> FALSE, err |-> msg, view |-> v, event |-> None]

\* View::set_hand
set_hand(v, hand) ==
  [v EXCEPT !.hand = Some(hand),
            !.public_state = on_cards_seen(v.public_state, v.player)]
\* View::make_bid
make_bid(v, bid) ==
  LET r == on_bid(v.public_state, v.player, bid)
      v2 == [v EXCEPT !.public_state = r.state]
  IN IF r.ok THEN ViewOk(v2, Some(EventMakeBid(bid))) ELSE ViewErr(v2, r.err)
\* View::approve_nil and View::reject_nil
answer_nil(v, approves) ==
  LET r == on_nil_approval(v.public_state, v.player, approves)
      v2 == [v EXCEPT !.public_state = r.state]
  IN IF r.ok THEN ViewOk(v2, Some(EventApprovesNil(approves)))
     ELSE ViewErr(v2, r.err)
\* View::after_card_played
view_after_card_played(v) ==
  IF ~v.public_state.seen_cards[v.player] THEN [v EXCEPT !.hand = None] ELSE v
\* View::play_card
play_card(v, card) ==
  IF v.hand = None THEN ViewErr(v, ErrNoHand)
  ELSE LET r == on_card_played(v.public_state, v.player, card, Unwrap(v.hand))
           v2 == [v EXCEPT !.public_state = r.state, !.hand = Some(r.hand)]
       IN IF r.ok THEN ViewOk(view_after_card_played(v2),
                              Some(EventPlayCard(card)))
          ELSE ViewErr(v2, r.err)

\* Mutant of get_allowed_actions: SeeCards is offered seen or not.
get_allowed_actions_AlwaysSee(v) ==
  LET p == v.player
      s == v.public_state
      status == get_status(s)
      see == {ActSeeCards}
      teammate_bid == s.bids[teammate(p)]
  IN IF status = GameOver \/ status = Panic THEN {}
     ELSE IF status[2] # p THEN see \cup {ActWait}
     ELSE IF status[1] = "WaitingForBid"
          THEN IF ~s.seen_cards[p]
               THEN see \cup
                    (IF get_compatibility_error(BlindNil, teammate_bid) = None
                     THEN {ActMakeBid(BlindNil)} ELSE {})
               ELSE see \cup
                    {ActMakeBid(bid) : bid \in
                       {b \in GeneratorBids :
                          /\ b # BlindNil
                          /\ (b # Nil \/ ~s.nil_rejected[p])
                          /\ get_compatibility_error(b, teammate_bid) = None}}
     ELSE IF status[1] = "WaitingForNilConfirmation"
          THEN see \cup {ActAllowNil, ActRejectNil}
     ELSE see \cup
          {ActPlayCard(card) : card \in
             get_playable_cards(s.trick,
                                IF v.hand = None THEN {} ELSE Unwrap(v.hand),
                                s.trump_broken)}

\* View::get_allowed_actions
get_allowed_actions(v) ==
  LET p == v.player
      s == v.public_state
      status == get_status(s)
      see == IF ~s.seen_cards[p] THEN {ActSeeCards} ELSE {}
      teammate_bid == s.bids[teammate(p)]
  IN IF status = GameOver \/ status = Panic THEN {}
     ELSE IF status[2] # p THEN see \cup {ActWait}
     ELSE IF status[1] = "WaitingForBid"
          THEN IF ~s.seen_cards[p]
               THEN see \cup
                    (IF get_compatibility_error(BlindNil, teammate_bid) = None
                     THEN {ActMakeBid(BlindNil)} ELSE {})
               ELSE see \cup
                    {ActMakeBid(bid) : bid \in
                       {b \in GeneratorBids :
                          /\ b # BlindNil
                          /\ (b # Nil \/ ~s.nil_rejected[p])
                          /\ get_compatibility_error(b, teammate_bid) = None}}
     ELSE IF status[1] = "WaitingForNilConfirmation"
          THEN see \cup {ActAllowNil, ActRejectNil}
     ELSE see \cup
          {ActPlayCard(card) : card \in
             get_playable_cards(s.trick,
                                IF v.hand = None THEN {} ELSE Unwrap(v.hand),
                                s.trump_broken)}

\* View::perform_action
perform_action(v, action) ==
  LET status == get_status(v.public_state)
  IN IF action = ActWait
     THEN IF status = GameOver THEN ViewErr(v, ErrWaitOver)
          ELSE IF status = Panic THEN ViewErr(v, ErrPanic)
          ELSE IF status[2] = v.player THEN ViewErr(v, ErrWaitOnYou)
          ELSE ViewOk(v, None)
     ELSE IF action = ActSeeCards
     THEN IF status = GameOver THEN ViewErr(v, ErrSeeOver)
          ELSE IF status = Panic THEN ViewErr(v, ErrPanic)
          ELSE IF v.public_state.seen_cards[v.player]
               THEN ViewErr(v, ErrSeeSeen)
          ELSE ViewOk(v, Some(EventSeeCards))
     ELSE IF action = ActAllowNil THEN answer_nil(v, TRUE)
     ELSE IF action = ActRejectNil THEN answer_nil(v, FALSE)
     ELSE IF action[1] = "MakeBid" THEN make_bid(v, action[2])
     ELSE play_card(v, action[2])

ErrOwnNotification == "Notifications from a player can not be applied to the player's own view of the game."

\* View::handle_response, on a game::Response <<"Ok", _>>, <<"Cards", set>>
\* or <<"Err", _>>.
handle_response(v, resp) ==
  IF resp[1] = "Ok" THEN ViewOk(v, None)
  ELSE IF resp[1] = "Cards" THEN ViewOk(set_hand(v, resp[2]), None)
  ELSE ViewErr(v, resp[2])

\* Mutant of handle_notification: a played card leaves the hand of the view
\* as it was when the round ends.
handle_notification_KeepsHand(v, player, event) ==
  IF player = v.player THEN ViewErr(v, ErrOwnNotification)
  ELSE IF event = EventSeeCards
       THEN ViewOk([v EXCEPT !.public_state = on_cards_seen(@, player)], None)
  ELSE LET r == IF event[1] = "MakeBid"
                THEN on_bid(v.public_state, player, event[2])
                ELSE IF event[1] = "ApprovesNil"
                THEN on_nil_approval(v.public_state, player, event[2])
                ELSE unchecked_on_card_played(v.public_state, player, event[2])
           v2 == [v EXCEPT !.public_state = r.state]
       IN IF ~r.ok THEN ViewErr(v2, r.err) ELSE ViewOk(v2, None)
\* View::handle_notification
handle_notification(v, player, event) ==
  IF player = v.player THEN ViewErr(v, ErrOwnNotification)
  ELSE IF event = EventSeeCards
       THEN ViewOk([v EXCEPT !.public_state = on_cards_seen(@, player)], None)
  ELSE LET r == IF event[1] = "MakeBid"
                THEN on_bid(v.public_state, player, event[2])
                ELSE IF event[1] = "ApprovesNil"
                THEN on_nil_approval(v.public_state, player, event[2])
                ELSE unchecked_on_card_played(v.public_state, player, event[2])
           v2 == [v EXCEPT !.public_state = r.state]
       IN IF ~r.ok THEN ViewErr(v2, r.err)
          ELSE IF event[1] = "PlayCard"
               THEN ViewOk(view_after_card_played(v2), None)
               ELSE ViewOk(v2, None)

\* ------------------------------------------------------------ game/state.rs
\* public_state, hands and response are the server session; call is the
\* library call under way when a component is exercised on its own, outside
\* a session, and NoCall throughout a session.  views are the four clients'
\* Views and delivered the last event a client sent with what became of it;
\* (an Option); both stay as they begin where no client is modelled.
VARIABLES public_state, hands, response, call, views, delivered
vars == <<public_state, hands, response, call, views, delivered>>
NoCall == <<"NoCall">>
NoDelivery == None
Clients == <<views, delivered>>
InitClients ==
  /\ views = [p \in Players |-> ViewNew(p)]
  /\ delivered = NoDelivery

\* The hands a Dealer may supply: every player holds one whole suite, or the
\* sorted deck dealt round-robin from Player One as ShuffledDealer deals it.
DealBySuite == [p \in Players |-> SetSuite(p)]
DealRoundRobin == [p \in Players |-> {c \in Cards : c % NumPlayers = p}]
Deals == {DealBySuite, DealRoundRobin}

\* game::Response to the last event, with the event it answers: Ok, Cards(set)
\* or Err(_).
RespNone == <<"None">>
RespOk(event) == <<"Ok", event>>
RespCards(set) == <<"Cards", set>>
RespErr(event) == <<"Err", event>>
Resp(event, r) == IF r.ok THEN RespOk(event) ELSE RespErr(event)

\* State::new
Init ==
  /\ public_state = PublicStateDefault
  /\ hands \in Deals
  /\ response = RespNone
  /\ call = NoCall
  /\ InitClients

\* State::create_view
create_view(player) == from_public_state(player, public_state, hands[player])

Lowest(S) == CHOOSE c \in S : \A d \in S : c <= d
Highest(S) == CHOOSE c \in S : \A d \in S : c >= d

\* Accepted Nil submissions of the current round: each is pending, approved
\* or rejected.
NilUsed(s) ==
  Cardinality({p \in Players : \/ s.pending_nil_player = Some(p)
                               \/ s.bids[p] = Some(Nil)
                               \/ s.nil_rejected[p]})

\* The bids clients submit.
BidInputs ==
  {BlindNil, Take(BigTake)}
    \cup (IF NilUsed(public_state) < MaxNil THEN {Nil} ELSE {})

\* The cards player p submits: the lowest card the trick lets p play, the
\* highest card of p's hand it does not, and the lowest card p does not hold.
CardInputs(p) ==
  LET hand == hands[p]
      legal == get_playable_cards(public_state.trick, hand,
                                  public_state.trump_broken)
  IN (IF legal = {} THEN {} ELSE {Lowest(legal)})
       \cup (IF hand \ legal = {} THEN {} ELSE {Highest(hand \ legal)})
       \cup (IF Cards \ hand = {} THEN {} ELSE {Lowest(Cards \ hand)})

CardsInTrick(t) == Cardinality({p \in Players : IsSome(t.cards[p])})
\* Bids and plays accepted since the session began.
Steps(s) ==
  (NumPlayers + NumCards) * Len(s.round_results)
    + Cardinality({p \in Players : IsSome(s.bids[p])})
    + NumPlayers * SumTricks(s.tricks_taken) + CardsInTrick(s.trick)

Submitting ==
  \/ Steps(public_state) < MaxSteps
  \/ get_status(public_state) = GameOver

SeenCount == Cardinality({q \in Players : public_state.seen_cards[q]})

\* handle_event(player, Event::SeeCards)
SeeCards(player) ==
  /\ public_state' = on_cards_seen(public_state, player)
  /\ response' = RespCards(hands[player])
  /\ UNCHANGED <<hands, call, Clients>>

\* handle_event(player, Event::MakeBid(bid))
MakeBid(player, bid) ==
  /\ LET r == on_bid(public_state, player, bid)
     IN /\ public_state' = r.state
        /\ response' = Resp("MakeBid", r)
  /\ UNCHANGED <<hands, call, Clients>>

\* Mutant of PlayCard: the dealer deals after every round, the last included.
PlayCard_DealsAfterLastRound(player, card) ==
  /\ LET r == on_card_played(public_state, player, card, hands[player])
     IN /\ public_state' = r.state
        /\ response' = Resp("PlayCard", r)
        /\ IF r.ok /\ Len(r.state.round_results) > Len(public_state.round_results)
           THEN hands' \in Deals
           ELSE hands' = [hands EXCEPT ![player] = r.hand]
  /\ UNCHANGED <<call, Clients>>
\* handle_event(player, Event::PlayCard(card))
PlayCard(player, card) ==
  /\ LET r == on_card_played(public_state, player, card, hands[player])
     IN /\ public_state' = r.state
        /\ response' = Resp("PlayCard", r)
        /\ IF r.ok /\ get_status(r.state)[1] = "WaitingForBid"
           THEN hands' \in Deals
           ELSE hands' = [hands EXCEPT ![player] = r.hand]
  /\ UNCHANGED <<call, Clients>>

\* handle_event(player, Event::ApprovesNil(approves))
ApprovesNil(player, approves) ==
  /\ LET r == on_nil_approval(public_state, player, approves)
     IN /\ public_state' = r.state
        /\ response' = Resp("ApprovesNil", r)
  /\ UNCHANGED <<hands, call, Clients>>

\* Any player may send any event at any time.
Next ==
  \/ \E player \in Players :
       /\ public_state.seen_cards[player] \/ SeenCount < MaxSeen
       /\ SeeCards(player)
  \/ \E player \in Players, bid \in BidInputs :
       Submitting /\ MakeBid(player, bid)
  \/ \E player \in Players : \E card \in CardInputs(player) :
       Submitting /\ PlayCard(player, card)
  \/ \E player \in Players, approves \in BOOLEAN :
       Submitting /\ ApprovesNil(player, approves)

Spec == Init /\ [][Next]_vars

\* Sessions of several rounds: only the awaited player acts, bidding
\* Take(SmallTake) or BlindNil and playing the lowest card the trick allows.
RoundBids == {Take(SmallTake), BlindNil}
NextRounds ==
  \/ \E player \in Players, bid \in RoundBids :
       /\ Steps(public_state) < MaxRoundSteps
       /\ get_status(public_state) = WaitingForBid(player)
       /\ MakeBid(player, bid)
  \/ \E player \in Players :
       /\ Steps(public_state) < MaxRoundSteps
       /\ get_status(public_state) = WaitingForPlay(player)
       /\ PlayCard(player, Lowest(get_playable_cards(public_state.trick,
                                     hands[player],
                                     public_state.trump_broken)))

SpecRounds == Init /\ [][NextRounds]_vars

\* Sessions in which only the awaited player acts and every kind of bid and
\* both answers to a Nil are tried: the awaited bidder may ask for the cards
\* first, bids Nil, BlindNil or Take(SmallTake) when the bid is accepted, the
\* awaited partner approves or rejects a pending Nil, and the awaited player
\* plays the lowest card the trick allows.
TurnBids == {Nil, BlindNil, Take(SmallTake)}
TurnsLeft == Len(public_state.round_results) < MaxTurnRounds
SeeTurn ==
  \E player \in Players :
    /\ TurnsLeft
    /\ get_status(public_state) = WaitingForBid(player)
    /\ ~public_state.seen_cards[player]
    /\ SeeCards(player)
BidTurn ==
  \E player \in Players, bid \in TurnBids :
    /\ TurnsLeft
    /\ on_bid(public_state, player, bid).ok
    /\ MakeBid(player, bid)
NilTurn ==
  \E player \in Players, approves \in BOOLEAN :
    /\ TurnsLeft
    /\ on_nil_approval(public_state, player, approves).ok
    /\ ApprovesNil(player, approves)
PlayAwaited == TurnsLeft /\ get_status(public_state)[1] = "WaitingForPlay"
PlayTurn ==
  \E player \in Players :
    /\ TurnsLeft
    /\ get_status(public_state) = WaitingForPlay(player)
    /\ PlayCard(player, Lowest(get_playable_cards(public_state.trick,
                                  hands[player],
                                  public_state.trump_broken)))
NextTurns == SeeTurn \/ BidTurn \/ NilTurn \/ PlayTurn
\* The awaited player keeps taking accepted actions: weak fairness of the
\* bid, of the answer to a Nil and of the play, the last written out with
\* PlayAwaited, the condition under which PlayTurn is enabled.
TurnsTaken ==
  /\ WF_vars(BidTurn)
  /\ WF_vars(NilTurn)
  /\ ([]<>(~PlayAwaited) \/ []<><<PlayTurn>>_vars)
SpecTurns == Init /\ [][NextTurns]_vars /\ TurnsTaken

\* State::handle_event as a function of the server's state: [ok, state,
\* hands, response, deal], hands being the hands before the dealer is asked
\* and deal telling whether the dealer is asked.
handle_event(s, h, player, event) ==
  IF event = EventSeeCards
  THEN [ok |-> TRUE, state |-> on_cards_seen(s, player), hands |-> h,
        response |-> RespCards(h[player]), deal |-> FALSE]
  ELSE IF event[1] = "MakeBid"
  THEN LET r == on_bid(s, player, event[2])
       IN [ok |-> r.ok, state |-> r.state, hands |-> h,
           response |-> Resp("MakeBid", r), deal |-> FALSE]
  ELSE IF event[1] = "ApprovesNil"
  THEN LET r == on_nil_approval(s, player, event[2])
       IN [ok |-> r.ok, state |-> r.state, hands |-> h,
           response |-> Resp("ApprovesNil", r), deal |-> FALSE]
  ELSE LET r == on_card_played(s, player, event[2], h[player])
       IN [ok |-> r.ok, state |-> r.state,
           hands |-> [h EXCEPT ![player] = r.hand],
           response |-> Resp("PlayCard", r),
           deal |-> r.ok /\ get_status(r.state)[1] = "WaitingForBid"]

\* A client performs an action in its View; the event it gives goes to the
\* server, whose response the client's View handles and whose notification,
\* sent when the event is accepted, the other clients' Views handle.
ViewsApply(player, event, srv, mine, theirs) ==
  /\ public_state' = srv.state
  /\ response' = srv.response
  /\ IF srv.deal THEN hands' \in Deals ELSE hands' = srv.hands
  /\ views' = [q \in Players |->
                 IF q = player THEN mine.view
                 ELSE IF srv.ok THEN theirs[q].view ELSE views[q]]
  /\ delivered' =
       Some([player |-> player, event |-> event, accepted |-> srv.ok,
             failed |-> {q \in Players :
                           \/ q = player /\ ~mine.ok
                           \/ q # player /\ srv.ok /\ ~theirs[q].ok}])
  /\ UNCHANGED call
ServerAnswers(player, act, event, srv) ==
  ViewsApply(player, event, srv,
             handle_response(act.view, srv.response),
             [q \in Players |-> handle_notification(views[q], player, event)])
ClientSends(player, act) ==
  /\ act.ok
  /\ act.event # None
  /\ ServerAnswers(player, act, Unwrap(act.event),
                   handle_event(public_state, hands, player,
                                Unwrap(act.event)))
ClientActs(player, action) ==
  ClientSends(player, perform_action(views[player], action))

\* The card a client plays: the lowest its View offers.
ViewCards(p) ==
  LET offered == {a[2] : a \in {a \in get_allowed_actions(views[p]) :
                                   a[1] = "PlayCard"}}
  IN IF offered = {} THEN {} ELSE {Lowest(offered)}

\* Clients act through their Views, at any time.
NextViews ==
  \/ \E player \in Players : ClientActs(player, ActSeeCards)
  \/ \E player \in Players, bid \in BidInputs :
       /\ Steps(public_state) < MaxViewSteps
       /\ ClientActs(player, ActMakeBid(bid))
  \/ \E player \in Players, approves \in BOOLEAN :
       ClientActs(player, IF approves THEN ActAllowNil ELSE ActRejectNil)
  \/ \E player \in Players : \E card \in ViewCards(player) :
       /\ Steps(public_state) < MaxViewSteps
       /\ ClientActs(player, ActPlayCard(card))

SpecViews == Init /\ [][NextViews]_vars

\* ------------------------------------------------------------ library calls
\* A call of a public function of the library on its own: call is
\* [fn, args, done, result], result being read once done is TRUE.
Calling(fn, args) == [fn |-> fn, args |-> args, done |-> FALSE, result |-> None]
Returned(c, result) == [c EXCEPT !.done = TRUE, !.result = result]
Session == <<public_state, hands, response, Clients>>
InitSession ==
  /\ public_state = PublicStateDefault
  /\ hands = DealBySuite
  /\ response = RespNone
  /\ InitClients

\* scoring::get_winning_team_index on a pair of scores.
ScoreInputs ==
  [tens : (0 - TensBelow)..(WinTens + TensAbove), extras : {0, MaxExtras}]
InitWinner ==
  /\ InitSession
  /\ \E a, b \in ScoreInputs : call = Calling("get_winning_team_index", <<a, b>>)
CallWinner ==
  /\ call.fn = "get_winning_team_index" /\ ~call.done
  /\ call' = Returned(call, get_winning_team_index(call.args))
  /\ UNCHANGED Session
NextWinner == CallWinner
SpecWinner == InitWinner /\ [][NextWinner]_vars

\* A Trick on its own: Trick::new(start_player), then play_card calls by any
\* player with any card; call is [fn, trick, ok], ok telling whether the last
\* play_card returned Ok.
TrickCards ==
  {c \in Cards : SuiteOf(c) < TrickSuites /\ ValueOf(c) < TrickValues}
InitTrick ==
  /\ InitSession
  /\ \E start_player \in Players :
       call = [fn |-> "Trick", trick |-> TrickNew(start_player), ok |-> TRUE]
CallPlayCard(player, card) ==
  /\ call.fn = "Trick"
  /\ LET r == TrickPlayCard(call.trick, player, card)
     IN call' = [fn |-> "Trick", trick |-> r.trick, ok |-> r.ok]
  /\ UNCHANGED Session
NextTrick == \E player \in Players, card \in TrickCards : CallPlayCard(player, card)
SpecTrick == InitTrick /\ [][NextTrick]_vars

\* Trick::get_playable_cards on a trick that is new or holds its leader's
\* card (the highest card of any suite), any hand of HandCards and either
\* value of the trump-broken flag.
HandCards ==
  {c \in Cards : SuiteOf(c) < HandSuites /\ ValueOf(c) < HandValues}
LeadCards == {c \in Cards : ValueOf(c) = NumValues - 1}
TricksToFollow ==
  {TrickNew(p) : p \in Players}
    \cup {TrickPlayCard(TrickNew(p), p, c).trick : p \in Players, c \in LeadCards}
InitPlayable ==
  /\ InitSession
  /\ \E t \in TricksToFollow, hand \in SUBSET HandCards, broken \in BOOLEAN :
       call = Calling("get_playable_cards", <<t, hand, broken>>)
CallPlayable ==
  /\ call.fn = "get_playable_cards" /\ ~call.done
  /\ call' = Returned(call, get_playable_cards(call.args[1], call.args[2],
                                               call.args[3]))
  /\ UNCHANGED Session
NextPlayable == CallPlayable
SpecPlayable == InitPlayable /\ [][NextPlayable]_vars

\* TeamRoundResult::get_score on the result of a round: any two bids a
\* player can name within the team limit, and the two partners' shares of
\* the round's tricks.
ResultBids == {BlindNil, Nil} \cup {Take(n) : n \in 0..MaxTeamBid}
ResultTricks ==
  {t \in (0..TricksPerRound) \X (0..TricksPerRound) :
     t[1] + t[2] <= TricksPerRound}
InitScore ==
  /\ InitSession
  /\ \E b1, b2 \in ResultBids, t \in ResultTricks :
       call = Calling("get_score", [bids |-> <<b1, b2>>, tricks_taken |-> t])
CallScore ==
  /\ call.fn = "get_score" /\ ~call.done
  /\ call' = Returned(call, get_score(call.args))
  /\ UNCHANGED Session
NextScore == CallScore
SpecScore == InitScore /\ [][NextScore]_vars

\* Score::add_extras on a score and a number of extras, and the addition of
\* a score to a score (AddAssign).
ExtScores == [tens : (0 - ExtTens)..ExtTens, extras : 0..(ExtrasBase - 1)]
AddedScores == [tens : {0 - ExtTens, ExtTens}, extras : 0..(ExtrasBase - 1)]
InitExtras ==
  /\ InitSession
  /\ \/ \E s \in ExtScores, n \in 0..MaxAddExtras :
          call = Calling("add_extras", <<s, n>>)
     \/ \E s \in ExtScores, other \in AddedScores :
          call = Calling("add_assign", <<s, other>>)
CallAddExtras ==
  /\ call.fn = "add_extras" /\ ~call.done
  /\ call' = Returned(call, add_extras(call.args[1], call.args[2]))
  /\ UNCHANGED Session
CallAddAssign ==
  /\ call.fn = "add_assign" /\ ~call.done
  /\ call' = Returned(call, ScoreAdd(call.args[1], call.args[2]))
  /\ UNCHANGED Session
NextExtras == CallAddExtras \/ CallAddAssign
SpecExtras == InitExtras /\ [][NextExtras]_vars

\* Bid::get_compatibility_error on a bid and the partner's bid, if any.
CompatBids == {BlindNil, Nil} \cup {Take(n) : n \in 0..MaxBidCount}
InitCompat ==
  /\ InitSession
  /\ \E bid \in CompatBids :
       \E teammate_bid \in {None} \cup {Some(b) : b \in CompatBids} :
         call = Calling("get_compatibility_error", <<bid, teammate_bid>>)
CallCompat ==
  /\ call.fn = "get_compatibility_error" /\ ~call.done
  /\ call' = Returned(call,
                      get_compatibility_error(call.args[1], call.args[2]))
  /\ UNCHANGED Session
NextCompat == CallCompat
SpecCompat == InitCompat /\ [][NextCompat]_vars

\* ------------------------------------------------------------------ claims
\* The bids a client can name, one past the team limit included.
AllBids == {BlindNil, Nil} \cup {Take(n) : n \in 0..(MaxTeamBid + 1)}

\* The cards tried for player p where the hand is not looked at: p's own
\* cards and one card p does not hold.
CardsToTry(p) ==
  hands[p] \cup (IF Cards \ hands[p] = {} THEN {} ELSE {Lowest(Cards \ hands[p])})

\* Position of player p in the rotation that starts at player from.
Dist(from, p) == (p - from + NumPlayers) % NumPlayers
\* The member of S that comes first in the rotation starting at from.
First(S, from) == CHOOSE p \in S : \A q \in S : Dist(from, p) <= Dist(from, q)
\* The other member of p's partnership (One and Three, Two and Four).
PartnerOf(p) == CHOOSE q \in Players : q # p /\ q % 2 = p % 2

Status == get_status(public_state)
Pending == public_state.pending_nil_player
Unbid(s) == {p \in Players : s.bids[p] = None}
BidsMade == Players \ Unbid(public_state)
\* The win condition of partnership i against partnership j.
TeamWins(scores, i, j) ==
  \/ scores[i].tens >= WinTens /\ scores[i].tens > scores[j].tens
  \/ scores[i].tens - scores[j].tens >= MercyLead
\* Player p holds a nil-type bid, recorded or pending.
HoldsNil(s, p) ==
  \/ s.bids[p] \in {Some(Nil), Some(BlindNil)}
  \/ s.pending_nil_player = Some(p)

\* C1: a make-bid, confirm-nil or play-card call (checked or unchecked) that
\* returns an error leaves the public state and the supplied hand as they
\* were, whoever calls and whatever bid, answer or card is named.
C1_RejectedCallChangesNothing ==
  \A p \in Players :
    /\ \A b \in AllBids :
         LET r == on_bid(public_state, p, b)
         IN ~r.ok => r.state = public_state
    /\ \A a \in BOOLEAN :
         LET r == on_nil_approval(public_state, p, a)
         IN ~r.ok => r.state = public_state
    /\ \A c \in Cards :
         LET r == on_card_played(public_state, p, c, hands[p])
         IN ~r.ok => r.state = public_state /\ r.hand = hands[p]
    /\ \A c \in CardsToTry(p) :
         LET r == unchecked_on_card_played(public_state, p, c)
         IN ~r.ok => r.state = public_state

\* C1 witness: a play was rejected while a trick was under way.
C1_Witness ==
  /\ response = RespErr("PlayCard")
  /\ Status[1] = "WaitingForPlay"
  /\ CardsInTrick(public_state.trick) > 0

\* C2: the status follows from the fields in a fixed priority: GameOver when
\* a partnership meets the win condition; else WaitingForNilConfirmation of
\* the pending bidder's partner; else WaitingForBid of the first player
\* without a bid in rotation from the seat after the dealer; else
\* WaitingForPlay of the first player in rotation from the trick's leader
\* who has not played.
C2_StatusPriority ==
  LET s == public_state
      over == TeamWins(s.scores, 1, 2) \/ TeamWins(s.scores, 2, 1)
      open == {p \in Players : s.trick.cards[p] = None}
  IN /\ over => Status = GameOver
     /\ (~over /\ Pending # None) =>
          Status = WaitingForNilConfirmation(PartnerOf(Pending[1]))
     /\ (~over /\ Pending = None /\ Unbid(s) # {}) =>
          Status = WaitingForBid(First(Unbid(s), (s.dealer + 1) % NumPlayers))
     /\ (~over /\ Pending = None /\ Unbid(s) = {}) =>
          /\ open # {}
          /\ Status = WaitingForPlay(First(open, s.trick.start_player))

\* C2 witness: the play that ended the first round ended the game.
C2_Witness ==
  /\ Status = GameOver
  /\ response = RespOk("PlayCard")
  /\ Len(public_state.round_results) = 1

\* The cards of hand that the rules let a player add to trick t.
LegalCardsRef(t, hand, trump_broken) ==
  LET led == t.cards[t.start_player]
      follow == {c \in hand : SuiteOf(c) = SuiteOf(led[1])}
  IN IF led # None
     THEN (IF follow = {} THEN hand ELSE follow)
     ELSE IF trump_broken \/ \A c \in hand : SuiteOf(c) = Spade
          THEN hand
          ELSE {c \in hand : SuiteOf(c) # Spade}

\* C3: the checked play-card(player, card, hand) succeeds exactly when the
\* card is in the hand, the status is WaitingForPlay(player) and the card is
\* a legal card of the hand for the live trick; on success the hand loses
\* exactly that card and the card is the player's play in the trick (which,
\* when it was the fourth card, is counted for its winner and replaced by an
\* empty trick).
C3_CheckedPlay ==
  \A p \in Players : \A c \in Cards :
    LET s == public_state
        r == on_card_played(s, p, c, hands[p])
        t1 == [s.trick EXCEPT !.cards[p] = Some(c)]
    IN /\ r.ok <=> /\ c \in hands[p]
                   /\ Status = WaitingForPlay(p)
                   /\ c \in LegalCardsRef(s.trick, hands[p], s.trump_broken)
       /\ r.ok =>
            /\ r.hand = hands[p] \ {c}
            /\ IF CardsInTrick(s.trick) < NumPlayers - 1
               THEN r.state = [s EXCEPT !.trick = t1]
               ELSE /\ \A q \in Players : r.state.trick.cards[q] = None
                    /\ \/ /\ Len(r.state.round_results) = Len(s.round_results)
                          /\ \E w \in Players :
                               /\ r.state.trick.start_player = w
                               /\ IsSome(t1.cards[w])
                               /\ r.state.tricks_taken =
                                    [s.tricks_taken EXCEPT ![w] = @ + 1]
                       \/ /\ Len(r.state.round_results) = Len(s.round_results) + 1
                          /\ SumTricks(s.tricks_taken) = TricksPerRound - 1

\* C3 witness: a play was accepted and is the second card of the live trick.
C3_Witness ==
  /\ response = RespOk("PlayCard")
  /\ CardsInTrick(public_state.trick) = 2

\* C4: bids settle strictly in seat rotation from the seat after the dealer
\* (Player Two in a new game): a make-bid is accepted only from the first
\* player of that rotation without a bid and only when the status names
\* that player, the players who have bid form a prefix of the rotation, and
\* an accepted bid other than Nil is recorded as the bidder's bid with
\* nothing else changed.
C4_BidRotation ==
  LET s == public_state
      first == (s.dealer + 1) % NumPlayers
  IN /\ (s.round_results = <<>> /\ BidsMade = {} /\ Pending = None) =>
          Status = WaitingForBid(1)
     /\ \A p \in BidsMade : \A q \in Players :
          Dist(first, q) < Dist(first, p) => q \in BidsMade
     /\ \A p \in Players : \A b \in AllBids :
          LET r == on_bid(s, p, b)
          IN /\ r.ok => /\ Unbid(s) # {}
                        /\ p = First(Unbid(s), first)
                        /\ Status = WaitingForBid(p)
             /\ (r.ok /\ b # Nil) => r.state = [s EXCEPT !.bids[p] = Some(b)]

\* C4 witness: the third bid of a round has just been accepted.
C4_Witness ==
  /\ response = RespOk("MakeBid")
  /\ Cardinality(BidsMade) = 3
  /\ Status[1] = "WaitingForBid"

\* C5: an accepted Nil records no bid, makes the bidder the pending-nil
\* player and the status WaitingForNilConfirmation of the partner; an
\* accepted Take(n) or BlindNil is recorded at once and leaves no nil
\* pending; and while a nil is pending no bid and no play is accepted.
C5_NilPendsOthersSettle ==
  LET s == public_state
  IN /\ \A p \in Players : \A b \in AllBids :
          LET r == on_bid(s, p, b)
          IN r.ok =>
               IF b = Nil
               THEN /\ r.state = [s EXCEPT !.pending_nil_player = Some(p)]
                    /\ r.state.bids[p] = None
                    /\ get_status(r.state) =
                         WaitingForNilConfirmation(PartnerOf(p))
               ELSE /\ r.state = [s EXCEPT !.bids[p] = Some(b)]
                    /\ r.state.pending_nil_player = None
     /\ Pending # None =>
          /\ s.bids[Pending[1]] = None
          /\ \A q \in Players :
               /\ \A b \in AllBids : ~on_bid(s, q, b).ok
               /\ \A c \in CardsToTry(q) :
                    /\ ~on_card_played(s, q, c, hands[q]).ok
                    /\ ~unchecked_on_card_played(s, q, c).ok

\* C5 witness: a Nil bid was accepted and waits for the partner.
C5_Witness ==
  /\ response = RespOk("MakeBid")
  /\ Pending # None
  /\ Status = WaitingForNilConfirmation(PartnerOf(Pending[1]))

\* C6: confirm-nil(c, approve) succeeds exactly when a nil is pending and c
\* is the pending bidder's partner; the bidder, both opponents, and anyone
\* when no nil is pending get an error.
C6_ConfirmOnlyByPartner ==
  \A c \in Players : \A a \in BOOLEAN :
    on_nil_approval(public_state, c, a).ok
      <=> (Pending # None /\ c = PartnerOf(Pending[1]))

\* C6 witness: a confirm-nil was refused while a nil was pending.
C6_Witness ==
  /\ response = RespErr("ApprovesNil")
  /\ Pending # None

\* C7: when the partner approves a pending nil the bidder's bid becomes Nil,
\* the pending slot is cleared, nothing else changes, and the status is
\* WaitingForBid of the seat after the bidder, or WaitingForPlay of the
\* trick's leader when the bidder was the last to bid.
C7_ApprovedNil ==
  Pending # None =>
    LET s == public_state
        b == Pending[1]
        r == on_nil_approval(s, PartnerOf(b), TRUE)
    IN /\ r.ok
       /\ r.state = [s EXCEPT !.bids[b] = Some(Nil),
                              !.pending_nil_player = None]
       /\ get_status(r.state) =
            IF b = s.dealer
            THEN WaitingForPlay(s.trick.start_player)
            ELSE WaitingForBid((b + 1) % NumPlayers)

\* C7 witness: a nil was approved and is now the bidder's recorded bid.
C7_Witness ==
  /\ response = RespOk("ApprovesNil")
  /\ \E p \in Players : public_state.bids[p] = Some(Nil)

\* C8: when the partner rejects a pending nil the bidder's nil-rejected flag
\* is set, the pending slot is cleared, no bid is recorded for the bidder,
\* nothing else changes, and the status is WaitingForBid of that bidder.
C8_RejectedNil ==
  Pending # None =>
    LET s == public_state
        b == Pending[1]
        r == on_nil_approval(s, PartnerOf(b), FALSE)
    IN /\ r.ok
       /\ r.state = [s EXCEPT !.nil_rejected[b] = TRUE,
                              !.pending_nil_player = None]
       /\ r.state.bids[b] = None
       /\ get_status(r.state) = WaitingForBid(b)

\* C8 witness: a nil was rejected and its bidder is asked to bid again.
C8_Witness ==
  /\ response = RespOk("ApprovesNil")
  /\ \E p \in Players :
       public_state.nil_rejected[p] /\ Status = WaitingForBid(p)

\* C9: a player whose Nil was rejected has every further Nil refused while
\* the flag stands, the flag is cleared only by the step that ends the
\* round, and on that player's turn to bid a BlindNil is accepted exactly
\* when the player has not seen their cards and the partner holds no
\* nil-type bid.
C9_RejectedStaysRejected ==
  \A p \in Players :
    public_state.nil_rejected[p] =>
      /\ ~on_bid(public_state, p, Nil).ok
      /\ Status = WaitingForBid(p) =>
           (on_bid(public_state, p, BlindNil).ok
              <=> /\ ~public_state.seen_cards[p]
                  /\ ~HoldsNil(public_state, PartnerOf(p)))

C9_FlagClearedAtRoundEnd ==
  \A p \in Players :
    (public_state.nil_rejected[p] /\ ~public_state'.nil_rejected[p]) =>
      Len(public_state'.round_results) = Len(public_state.round_results) + 1

C9_NilBlockedForTheRound ==
  [](C9_RejectedStaysRejected) /\ [][C9_FlagClearedAtRoundEnd]_vars

\* C9 witness: a player bid BlindNil after their Nil had been rejected.
C9_Witness ==
  \E p \in Players :
    /\ public_state.nil_rejected[p]
    /\ public_state.bids[p] = Some(BlindNil)

\* C10: a Nil or BlindNil bid by a player whose partner holds a nil-type bid
\* is refused and changes nothing, and no partnership ever holds two
\* nil-type bids, recorded or pending.
C10_NoDoubleNil ==
  \A p \in Players :
    /\ HoldsNil(public_state, PartnerOf(p)) =>
         \A b \in {Nil, BlindNil} :
           LET r == on_bid(public_state, p, b)
           IN ~r.ok /\ r.state = public_state
    /\ ~(HoldsNil(public_state, p) /\ HoldsNil(public_state, PartnerOf(p)))

\* C10 witness: a bid was refused on the turn of a player whose partner has
\* a nil-type bid recorded.
C10_Witness ==
  /\ response = RespErr("MakeBid")
  /\ \E p \in Players :
       /\ Status = WaitingForBid(p)
       /\ public_state.bids[PartnerOf(p)] \in {Some(Nil), Some(BlindNil)}

\* C11: a BlindNil bid by a player whose seen-cards flag is set fails, so a
\* BlindNil bid is only ever recorded in a step that starts with the bidder's
\* seen-cards flag false.
C11_BlindNilFailsOnceSeen ==
  \A p \in Players :
    public_state.seen_cards[p] => ~on_bid(public_state, p, BlindNil).ok
C11_BlindNilRecordedUnseen ==
  \A p \in Players :
    (public_state'.bids[p] = Some(BlindNil)
       /\ public_state.bids[p] # Some(BlindNil))
      => ~public_state.seen_cards[p]
C11_BlindNilOnlyUnseen ==
  [](C11_BlindNilFailsOnceSeen) /\ [][C11_BlindNilRecordedUnseen]_vars

\* C11 witness: a BlindNil is recorded and the player whose turn it is to bid
\* has seen their cards.
C11_Witness ==
  \E p, q \in Players :
    /\ Status = WaitingForBid(p)
    /\ public_state.seen_cards[p]
    /\ public_state.bids[q] = Some(BlindNil)

\* The trick t with card c in player p's slot.
WithCard(t, p, c) == [t EXCEPT !.cards[p] = Some(c)]
\* A successful play of the fourth card of a trick that is not the round's
\* last took state s to state s2: only the winner w gained a trick, the live
\* trick is empty and led by w, and w is to play.
TrickTurnedOver(s, s2, w) ==
  /\ s2.tricks_taken = [s.tricks_taken EXCEPT ![w] = @ + 1]
  /\ s2.trick = [start_player |-> w, cards |-> [q \in Players |-> None]]
  /\ get_status(s2) = WaitingForPlay(w)

\* C12: when a play (checked or unchecked) fills the fourth slot of a trick
\* that is not the thirteenth of its round, the winner of the trick gains
\* exactly one trick, no other count changes, an empty trick led by the
\* winner replaces the old one, and the status is WaitingForPlay(winner).
C12_TrickTurnsOver ==
  \A p \in Players :
    (CardsInTrick(public_state.trick) = NumPlayers - 1
       /\ SumTricks(public_state.tricks_taken) < TricksPerRound - 1)
    => /\ \A c \in Cards :
            LET r == on_card_played(public_state, p, c, hands[p])
                w == TrickGetStatus(WithCard(public_state.trick, p, c))[2]
            IN r.ok => TrickTurnedOver(public_state, r.state, w)
       /\ \A c \in CardsToTry(p) :
            LET r == unchecked_on_card_played(public_state, p, c)
                w == TrickGetStatus(WithCard(public_state.trick, p, c))[2]
            IN r.ok => TrickTurnedOver(public_state, r.state, w)

\* C12 witness: a play has just closed a trick in the middle of a round, and
\* the trick was won by someone other than its leader's right-hand neighbour.
C12_Witness ==
  /\ response = RespOk("PlayCard")
  /\ CardsInTrick(public_state.trick) = 0
  /\ SumTricks(public_state.tricks_taken) \in 2..(TricksPerRound - 1)
  /\ Cardinality({p \in Players : public_state.tricks_taken[p] > 0}) >= 2

\* A successful play of the last card of a round took state s to state s2,
\* the last trick going to player w.
RoundTurnedOver(s, s2, w) ==
  LET final == [s.tricks_taken EXCEPT ![w] = @ + 1]
      pair == s2.round_results[Len(s2.round_results)]
      seat == (s.dealer + 2) % NumPlayers
  IN /\ Len(s2.round_results) = Len(s.round_results) + 1
     /\ SubSeq(s2.round_results, 1, Len(s.round_results)) = s.round_results
     /\ pair[1].bids = <<s.bids[0][1], s.bids[2][1]>>
     /\ pair[2].bids = <<s.bids[1][1], s.bids[3][1]>>
     /\ pair[1].tricks_taken = <<final[0], final[2]>>
     /\ pair[2].tricks_taken = <<final[1], final[3]>>
     /\ final[0] + final[1] + final[2] + final[3] = TricksPerRound
     /\ s2.dealer = (s.dealer + 1) % NumPlayers
     /\ \A q \in Players :
          /\ s2.tricks_taken[q] = 0
          /\ s2.bids[q] = None
          /\ ~s2.seen_cards[q]
          /\ ~s2.nil_rejected[q]
          /\ s2.trick.cards[q] = None
     /\ ~s2.trump_broken
     /\ s2.trick.start_player = seat
     /\ get_status(s2) \in {GameOver, WaitingForBid(seat)}
     /\ get_status(s2) = GameOver
          <=> (TeamWins(s2.scores, 1, 2) \/ TeamWins(s2.scores, 2, 1))

\* C13: the play (checked or unchecked) that completes the thirteenth trick
\* of a round appends one pair to the round history holding the round's bids
\* and final trick counts, which sum to 13, advances the dealer by one seat,
\* zeroes the trick counts, clears the bids, the seen-cards, nil-rejected and
\* trump-broken flags, installs an empty trick led by the seat after the new
\* dealer, and, unless the game is over, makes that seat the next bidder.
C13_RoundTurnsOver ==
  \A p \in Players :
    (CardsInTrick(public_state.trick) = NumPlayers - 1
       /\ SumTricks(public_state.tricks_taken) = TricksPerRound - 1)
    => /\ \A c \in Cards :
            LET r == on_card_played(public_state, p, c, hands[p])
                w == TrickGetStatus(WithCard(public_state.trick, p, c))[2]
            IN r.ok => RoundTurnedOver(public_state, r.state, w)
       /\ \A c \in CardsToTry(p) :
            LET r == unchecked_on_card_played(public_state, p, c)
                w == TrickGetStatus(WithCard(public_state.trick, p, c))[2]
            IN r.ok => RoundTurnedOver(public_state, r.state, w)

\* C13 witness: the play that ended the first round has just been accepted,
\* the game goes on, and Player Three is the next bidder.
C13_Witness ==
  /\ response = RespOk("PlayCard")
  /\ Len(public_state.round_results) = 1
  /\ public_state.dealer = 1
  /\ Status = WaitingForBid(2)

\* Score a plus Score b: the tens add up, the extras add up, and every ten
\* accumulated extras are taken out at the price the program charges.
ScorePlus(a, b) ==
  LET e == a.extras + b.extras
  IN [tens |-> a.tens + b.tens - ExtrasPenalty * (e \div ExtrasBase),
      extras |-> e % ExtrasBase]
\* The sum of roundScore over the first n rounds for partnership i (1 is
\* Players One and Three, 2 is Players Two and Four).
RECURSIVE RunningSum(_, _, _)
RunningSum(results, i, n) ==
  IF n = 0 THEN [tens |-> 0, extras |-> 0]
  ELSE ScorePlus(RunningSum(results, i, n - 1), get_score(results[n][i]))

C14_ScoresAreRunningSum ==
  \A i \in 1..2 :
    public_state.scores[i]
      = RunningSum(public_state.round_results, i,
                   Len(public_state.round_results))
C14_RoundScoreAdded ==
  Len(public_state'.round_results) # Len(public_state.round_results)
    => LET n == Len(public_state'.round_results)
           pair == public_state'.round_results[n]
       IN /\ n = Len(public_state.round_results) + 1
          /\ pair[1].bids = <<public_state.bids[0][1], public_state.bids[2][1]>>
          /\ pair[2].bids = <<public_state.bids[1][1], public_state.bids[3][1]>>
          /\ \A i \in 1..2 :
               public_state'.scores[i]
                 = ScorePlus(public_state.scores[i], get_score(pair[i]))
\* C14: at each round boundary each partnership's cumulative Score becomes
\* its previous Score plus the roundScore of the round's result for that
\* partnership (One and Three, Two and Four), and in every reachable state
\* the cumulative scores are the running sum of roundScore over the history.
C14_ScoresAccumulate ==
  [](C14_ScoresAreRunningSum) /\ [][C14_RoundScoreAdded]_vars

\* C14 witness: two rounds are in the history, both scored for a partnership
\* whose extras of the two rounds together reach ten.
C14_Witness ==
  /\ Len(public_state.round_results) = 2
  /\ \E i \in 1..2 :
       /\ get_score(public_state.round_results[1][i]).tens # 0
       /\ get_score(public_state.round_results[1][i]).extras
            + get_score(public_state.round_results[2][i]).extras >= ExtrasBase

\* The score s with its extras set to e.
WithExtras(s, e) == [s EXCEPT !.extras = e]
\* The answer for the two teams in the other order.
Swapped(r) == IF r = None THEN None ELSE Some(1 - r[1])

\* C15: get_winning_team_index returns team i exactly when i's tens are at
\* least 50 and above the other team's, or lead the other team's by at least
\* 50, and None otherwise (level tens of 50 or more included); the answer
\* does not depend on extras, never names both teams, and swaps when the two
\* scores are swapped.
C15_WinningTeam ==
  (call.fn = "get_winning_team_index" /\ call.done)
  => LET a == call.args[1]
         b == call.args[2]
         r == call.result
     IN /\ r = Some(0) <=> TeamWins(call.args, 1, 2)
        /\ r = Some(1) <=> TeamWins(call.args, 2, 1)
        /\ r \in {None, Some(0), Some(1)}
        /\ ~(TeamWins(call.args, 1, 2) /\ TeamWins(call.args, 2, 1))
        /\ (a.tens = b.tens) => r = None
        /\ \A e1, e2 \in 0..MaxExtras :
             get_winning_team_index(<<WithExtras(a, e1), WithExtras(b, e2)>>) = r
        /\ get_winning_team_index(<<b, a>>) = Swapped(r)

\* C15 witness: the second team is returned as the winner on the lead alone,
\* with fewer than 50 tens.
C15_Witness ==
  /\ call.fn = "get_winning_team_index" /\ call.done
  /\ call.result = Some(1)
  /\ call.args[2].tens < WinTens
  /\ call.args[2].extras < call.args[1].extras

\* The result r is an error with a reason, not a panic, and the call left
\* the state s as it was.
Refused(r, s) == ~r.ok /\ r.err \notin {"", ErrPanic} /\ r.state = s

C16_GameOverRefusesAll ==
  Status = GameOver
  => \A p \in Players :
       /\ \A b \in AllBids : Refused(on_bid(public_state, p, b), public_state)
       /\ \A a \in BOOLEAN :
            Refused(on_nil_approval(public_state, p, a), public_state)
       /\ \A c \in Cards : \A hand \in {hands[p], {c}} :
            LET r == on_card_played(public_state, p, c, hand)
            IN Refused(r, public_state) /\ r.hand = hand
       /\ \A c \in Cards :
            Refused(unchecked_on_card_played(public_state, p, c), public_state)
C16_GameOverStays ==
  Status = GameOver => get_status(public_state') = GameOver
\* C16: once the status is GameOver, every make-bid, confirm-nil and play-card
\* call (checked or unchecked, by any player, with any argument, the checked
\* play against the player's hand and against a hand that holds the card)
\* returns an error with a reason, does not panic and leaves the state
\* unchanged, and the status is GameOver in every later state.
C16_GameOverIsAbsorbing ==
  [](C16_GameOverRefusesAll) /\ [][C16_GameOverStays]_vars

\* C16 witness: the game is over, a player has looked at the cards and a play
\* was turned down since it ended.
C16_Witness ==
  /\ Status = GameOver
  /\ response = RespErr("PlayCard")
  /\ \E p \in Players : public_state.seen_cards[p]

\* The players whose card in the full trick t is of suite su.
PlayedSuite(t, su) == {p \in Players : SuiteOf(t.cards[p][1]) = su}
\* The players among whom the full trick t is decided: those who played a
\* Spade if anyone did, otherwise those who played the suite led.
Contenders(t) ==
  IF PlayedSuite(t, Spade) # {} THEN PlayedSuite(t, Spade)
  ELSE PlayedSuite(t, SuiteOf(t.cards[t.start_player][1]))

\* C17: the winner of a full trick is the player of the highest Spade if a
\* Spade was played and otherwise the player of the highest card of the suite
\* led; the winning card is the card the winner played, and it is never of a
\* suite that is neither the suite led nor Spade.
C17_TrickWinner ==
  (call.fn = "Trick" /\ CardsInTrick(call.trick) = NumPlayers)
  => LET t == call.trick
         st == TrickGetStatus(t)
     IN /\ st[1] = "Won"
        /\ st[2] \in Contenders(t)
        /\ \A q \in Contenders(t) :
             ValueOf(t.cards[q][1]) <= ValueOf(t.cards[st[2]][1])
        /\ st[3] = t.cards[st[2]][1]
        /\ SuiteOf(st[3]) \in {Spade, SuiteOf(t.cards[t.start_player][1])}

\* C17 witness: a full trick of four different cards without a Spade, won by
\* a player other than the leader although a card of another suite has a
\* higher value than the winning card.
C17_Witness ==
  /\ call.fn = "Trick" /\ CardsInTrick(call.trick) = NumPlayers
  /\ PlayedSuite(call.trick, Spade) = {}
  /\ Cardinality({call.trick.cards[p][1] : p \in Players}) = NumPlayers
  /\ TrickGetStatus(call.trick)[2] # call.trick.start_player
  /\ \E q \in Players :
       ValueOf(call.trick.cards[q][1]) > ValueOf(TrickGetStatus(call.trick)[3])

\* The players of trick t whose slot is filled.
Filled(t) == {p \in Players : t.cards[p] # None}

\* C18: play_card(p, c) on a trick succeeds exactly when the trick is not
\* full and p is the first player, in rotation from the leader, whose slot is
\* empty; a failed call leaves the trick as it was, a successful one fills
\* p's slot with c; the filled slots are a prefix of the rotation.
C18_TrickTurnOrder ==
  call.fn = "Trick"
  => LET t == call.trick
     IN /\ \A p \in Filled(t), q \in Players :
             Dist(t.start_player, q) < Dist(t.start_player, p) => q \in Filled(t)
        /\ \A p \in Players, c \in TrickCards :
             LET r == TrickPlayCard(t, p, c)
             IN /\ r.ok <=> /\ Filled(t) # Players
                            /\ p = First(Players \ Filled(t), t.start_player)
                /\ ~r.ok => r.trick = t
                /\ r.ok => r.trick = [t EXCEPT !.cards[p] = <<c>>]

\* C18 witness: a fifth play into a full trick has failed.
C18_Witness ==
  /\ call.fn = "Trick" /\ CardsInTrick(call.trick) = NumPlayers
  /\ ~call.ok

\* C19: the legal cards of a hand are, once a card has been led, the hand's
\* cards of the suite led if it has any and otherwise the whole hand,
\* whatever the trump-broken flag; and, when no card has been led, the whole
\* hand if trump is broken or the hand holds only Spades, and otherwise the
\* hand without its Spades.
C19_LegalCards ==
  (call.fn = "get_playable_cards" /\ call.done)
  => LET t == call.args[1]
         hand == call.args[2]
         led == t.cards[t.start_player]
         follow == {c \in hand : SuiteOf(c) = SuiteOf(led[1])}
     IN /\ (led # None /\ follow # {}) => call.result = follow
        /\ (led # None /\ follow = {}) => call.result = hand
        /\ led # None
             => call.result = get_playable_cards(t, hand, ~call.args[3])
        /\ (led = None /\ (call.args[3] \/ \A c \in hand : SuiteOf(c) = Spade))
             => call.result = hand
        /\ (led = None /\ ~call.args[3] /\ \E c \in hand : SuiteOf(c) # Spade)
             => call.result = {c \in hand : SuiteOf(c) # Spade}

\* C19 witness: a hand of Spades only is to lead while trump is not broken,
\* and all of it may be played.
C19_Witness ==
  /\ call.fn = "get_playable_cards" /\ call.done
  /\ call.args[1].cards[call.args[1].start_player] = None
  /\ ~call.args[3]
  /\ Cardinality(call.args[2]) >= 2
  /\ \A c \in call.args[2] : SuiteOf(c) = Spade
  /\ call.result = call.args[2]

\* The Take count of bid b, zero for a nil-type bid.
TakeCount(b) == IF b[1] = "Take" THEN b[2] ELSE 0
\* The number of bids of kind k among the two bids bs.
CountKind(bs, k) == Cardinality({i \in 1..2 : bs[i][1] = k})

\* C20: with required the larger of 4 and the sum of the Take counts and
\* taken the sum of the partners' tricks, the round fails exactly when taken
\* is below required or a partner who bid Nil or BlindNil took a trick; tens
\* is the bid value, negated on failure, the bid value being required plus
\* 10 per Nil, 20 per BlindNil and 10 if the Take counts sum to 10 or more;
\* extras is taken minus required when taken exceeds required, on success and
\* on failure alike, and zero otherwise.
C20_RoundScore ==
  (call.fn = "get_score" /\ call.done)
  => LET bs == call.args.bids
         tt == call.args.tricks_taken
         sum == TakeCount(bs[1]) + TakeCount(bs[2])
         required == IF sum > 4 THEN sum ELSE 4
         taken == tt[1] + tt[2]
         fails == \/ taken < required
                  \/ \E i \in 1..2 : bs[i][1] \in {"Nil", "BlindNil"} /\ tt[i] >= 1
         bidValue == required + 10 * CountKind(bs, "Nil")
                       + 20 * CountKind(bs, "BlindNil")
                       + (IF sum >= 10 THEN 10 ELSE 0)
     IN /\ call.result.tens = IF fails THEN 0 - bidValue ELSE bidValue
        /\ call.result.extras = IF taken > required THEN taken - required ELSE 0

\* C20 witness: the score of a round lost although the Nil bidder took no
\* trick, the partner having taken four of the five tricks bid.
C20_Witness ==
  /\ call.fn = "get_score" /\ call.done
  /\ call.args.bids[1] = Nil /\ call.args.tricks_taken[1] = 0
  /\ call.args.bids[2] = Take(5) /\ call.args.tricks_taken[2] = 4
  /\ call.result.tens < 0

\* The play that took state s to state s2 did not end a round.
SameRound(s, s2) == Len(s2.round_results) = Len(s.round_results)

FlagFollowsTrick(s, s2, p, c) ==
  IF CardsInTrick(s.trick) < NumPlayers - 1
  THEN s2.trump_broken = s.trump_broken
  ELSE /\ s2.trump_broken
            = (s.trump_broken
                 \/ SuiteOf(TrickGetStatus(WithCard(s.trick, p, c))[3]) = Spade)
       /\ SuiteOf(c) = Spade => s2.trump_broken

Accumulated == call.args[1].extras + call.args[2]

\* C22 as stated: every group of ten accumulated extras is removed from the
\* extras and adds one to the tens, leaving extras in 0..9.
C22_TenExtrasAddOneToTens ==
  (call.fn = "add_extras" /\ call.done)
  => /\ call.result.extras = Accumulated % 10
     /\ call.result.tens = call.args[1].tens + (Accumulated \div 10)

\* C22, amended: every group of ten accumulated extras is removed from the
\* extras and takes ten off the tens, leaving extras in 0..9.
C22_TenExtrasCostTenTens ==
  (call.fn = "add_extras" /\ call.done)
  => /\ call.result.extras = Accumulated % 10
     /\ call.result.extras \in 0..9
     /\ call.result.tens = call.args[1].tens - 10 * (Accumulated \div 10)

\* C22 witness: extras were added that make up two groups of ten and more.
C22_Witness ==
  /\ call.fn = "add_extras" /\ call.done
  /\ Accumulated > 20
  /\ call.result.tens = call.args[1].tens - 20
  /\ call.result.extras > 0

\* The score left when the extras e are brought below ten, ten at a time,
\* each ten taking ten off the tens.
RECURSIVE TakenOut(_, _)
TakenOut(tens, e) ==
  IF e >= 10 THEN TakenOut(tens - 10, e - 10) ELSE [tens |-> tens, extras |-> e]

\* C23: add_extras leaves extras in 0..9 by removing ten extras and taking
\* ten off the tens each time the accumulated extras reach ten, so that
\* Score(20, 5) plus 8 extras is tens 10 and extras 3, and plus 5 extras is
\* tens 10 and extras 0; adding a score to a score adds the tens and then
\* adds the extras by the same rule.
C23_ExtrasPenalty ==
  /\ (call.fn = "add_extras" /\ call.done)
     => /\ call.result.extras \in 0..9
        /\ call.result = TakenOut(call.args[1].tens, Accumulated)
  /\ (call.fn = "add_assign" /\ call.done)
     => /\ call.result.extras \in 0..9
        /\ call.result = TakenOut(call.args[1].tens + call.args[2].tens,
                                  call.args[1].extras + call.args[2].extras)
  /\ add_extras(ScoreNew(20, 5), 8) = [tens |-> 10, extras |-> 3]
  /\ add_extras(ScoreNew(20, 5), 5) = [tens |-> 10, extras |-> 0]

\* C23 witness: a score was added to a score and their extras together
\* reached ten, which took ten off the sum of the tens.
C23_Witness ==
  /\ call.fn = "add_assign" /\ call.done
  /\ call.args[1].extras + call.args[2].extras >= 10
  /\ call.result.tens = call.args[1].tens + call.args[2].tens - 10

\* A finished call of get_compatibility_error, with its bid and the
\* partner's bid.
Compared == call.fn = "get_compatibility_error" /\ call.done
OwnBid == call.args[1]
TeammateBid == call.args[2]

\* C24: compatibility is symmetric: for every pair of bids x and y (BlindNil,
\* Nil or Take(n) for any count n), x against the partner bid y is an error
\* exactly when y against the partner bid x is.
C24_CompatibilitySymmetric ==
  (Compared /\ IsSome(TeammateBid))
  => (IsSome(call.result)
        <=> IsSome(get_compatibility_error(Unwrap(TeammateBid), Some(OwnBid))))

\* C25: Take(a) and Take(b) are compatible exactly when a + b <= 13; two
\* nil-type bids are never compatible; Take(n) against a nil-type partner bid
\* or no partner bid is accepted exactly when n <= 13; BlindNil, Nil and
\* Take(0..13) are accepted when the partner has not bid.
C25_CompatibilityTable ==
  Compared =>
    /\ (IsTake(OwnBid) /\ IsSome(TeammateBid) /\ IsTake(Unwrap(TeammateBid)))
       => (call.result = None <=> OwnBid[2] + Unwrap(TeammateBid)[2] <= 13)
    /\ (is_any_nil(OwnBid) /\ IsSome(TeammateBid)
          /\ is_any_nil(Unwrap(TeammateBid)))
       => IsSome(call.result)
    /\ (IsTake(OwnBid)
          /\ (TeammateBid = None \/ is_any_nil(Unwrap(TeammateBid))))
       => (call.result = None <=> OwnBid[2] <= 13)
    /\ (TeammateBid = None
          /\ OwnBid \in {BlindNil, Nil} \cup {Take(n) : n \in 0..13})
       => call.result = None

\* The cards lying in the live trick.
CardsOnTable == {Unwrap(public_state.trick.cards[q]) :
                   q \in {q \in Players : IsSome(public_state.trick.cards[q])}}
\* The cards tried in an unchecked play of player p: cards of p's hand, a
\* card p does not hold and the cards already lying in the trick.
UncheckedCards(p) == CardsToTry(p) \cup CardsOnTable

\* C26: an unchecked play of a card by player p succeeds exactly when the
\* status is WaitingForPlay(p), whatever the card (held or not, allowed by
\* the rules of following or not, already played or not); it fails during
\* bidding, while a nil is pending, when the game is over and out of turn;
\* when it succeeds the state is the one a checked play of the same card
\* from a hand that allows it leaves.
C26_UncheckedPlay ==
  \A p \in Players : \A c \in UncheckedCards(p) :
    LET r == unchecked_on_card_played(public_state, p, c)
    IN /\ r.ok <=> Status = WaitingForPlay(p)
       /\ Status[1] \in {"WaitingForBid", "WaitingForNilConfirmation",
                          "GameOver"} => ~r.ok
       /\ r.ok => r.state = on_card_played(public_state, p, c, {c}).state
       /\ r.ok => on_card_played(public_state, p, c, {c}).ok

\* C26 witness: the awaited player has played; a card that player does not
\* hold and the checked play refuses is accepted unchecked and completes
\* the trick.
C26_Witness ==
  /\ response = RespOk("PlayCard")
  /\ CardsInTrick(public_state.trick) = NumPlayers - 1
  /\ \E p \in Players : \E c \in Cards \ hands[p] :
       /\ ~on_card_played(public_state, p, c, hands[p]).ok
       /\ unchecked_on_card_played(public_state, p, c).ok
       /\ CardsInTrick(unchecked_on_card_played(public_state, p, c).state.trick) = 0

\* The public state with player p's seen flag set and nothing else changed.
WithSeen(s, p) ==
  [s EXCEPT !.seen_cards = [q \in Players |-> IF q = p THEN TRUE ELSE @[q]]]

\* C27, in every state: see-cards of any player can be taken, and
\* on_cards_seen sets that player's seen flag, changes no other part of the
\* public state and gives the same state when applied again.
C27_SeeCardsAlwaysSetsFlag ==
  \A p \in Players :
    LET s2 == on_cards_seen(public_state, p)
    IN /\ ENABLED SeeCards(p)
       /\ s2 = WithSeen(public_state, p)
       /\ s2.seen_cards[p]
       /\ on_cards_seen(s2, p) = s2

\* C27, in every step: a see-cards event of player p is answered with p's
\* current hand, sets p's flag and leaves the hands and the rest of the
\* public state alone; no other event is answered with cards.
C27_SeeCardsAnswersHand ==
  /\ \A p \in Players :
       SeeCards(p) => /\ response' = RespCards(hands[p])
                      /\ public_state' = WithSeen(public_state, p)
                      /\ hands' = hands
  /\ response'[1] = "Cards"
       => \E p \in Players : /\ response' = RespCards(hands'[p])
                              /\ public_state' = WithSeen(public_state, p)
                              /\ hands' = hands

\* C27: see-cards(p) succeeds in every state, sets p's seen flag, changes
\* nothing else and is idempotent; the server answers it with p's current
\* hand.
C27_SeeCards ==
  [](C27_SeeCardsAlwaysSetsFlag) /\ [][C27_SeeCardsAnswersHand]_vars

\* C27 witness: a player who had seen their cards asked again while a trick
\* was under way, and got the hand that is left.
C27_Witness ==
  /\ response[1] = "Cards"
  /\ CardsInTrick(public_state.trick) > 0
  /\ \E p \in Players : /\ response = RespCards(hands[p])
                         /\ public_state.seen_cards[p]
                         /\ Cardinality(hands[p]) < TricksPerRound

\* A step in which a play completes the thirteenth trick of a round: the
\* history grows by one entry.
CompletesRound ==
  Len(public_state'.round_results) = Len(public_state.round_results) + 1
\* A step in which the hands are replaced by hands the dealer supplies.
HandsDealt == hands' # hands /\ hands' \in Deals
\* A step that changes the hands by nothing but the removal of one card
\* from one hand.
OneCardLeaves ==
  \E p \in Players : \E c \in hands[p] :
    hands' = [hands EXCEPT ![p] = @ \ {c}]

\* C28 as stated: the hands are the dealer's at construction and are
\* replaced by the dealer's after every play that completes the thirteenth
\* trick of a round, and at no other time.
C28_DealtAfterEveryRound ==
  [](public_state = PublicStateDefault /\ response = RespNone
       => hands \in Deals)
  /\ [][CompletesRound <=> HandsDealt]_vars

\* A step that completes a round and leaves the game going on, and one that
\* completes the round that ends the game.
RoundGoesOn == CompletesRound /\ get_status(public_state') # GameOver
RoundEndsGame == CompletesRound /\ get_status(public_state') = GameOver
\* The hands after a step, by the kind of step.
DealRule ==
  /\ RoundGoesOn <=> HandsDealt
  /\ RoundGoesOn => (get_status(public_state')[1] = "WaitingForBid")
  /\ RoundEndsGame => (hands' = [p \in Players |-> {}])
  /\ (~HandsDealt) => (hands' = hands \/ OneCardLeaves)

\* C28, amended: the hands are the dealer's at construction and are replaced
\* by the dealer's after every play that completes the thirteenth trick of a
\* round and leaves the game waiting for a bid, and at no other time; the
\* play that completes the round that ends the game leaves four empty hands,
\* and every other step leaves the hands alone or takes the played card out
\* of one hand.
C28_DealtAfterEveryRoundButTheLast ==
  [](public_state = PublicStateDefault /\ response = RespNone
       => hands \in Deals)
  /\ [][DealRule]_vars

\* C28 witness: a round was played to its end, the game goes on and the
\* players hold thirteen cards each again.
C28_Witness ==
  /\ Len(public_state.round_results) = 1
  /\ response = RespOk("PlayCard")
  /\ get_status(public_state)[1] = "WaitingForBid"
  /\ hands \in Deals

\* The view player p would get if the hands were h instead.
ViewWith(p, h) == from_public_state(p, public_state, h[p])
NoHands == [q \in Players |-> {}]
\* Hands that differ from the server's in the hands of the players other
\* than p: dealt otherwise, taken away, or passed round the table.
OtherHandsChanged(p) ==
  {[q \in Players |-> IF q = p THEN hands[p] ELSE d[q]] :
     d \in Deals \cup {NoHands, [q \in Players |-> hands[next(q)]]}}
\* Hands that differ from the server's in any hand, p's own included.
AllHandsChanged ==
  Deals \cup {NoHands, [q \in Players |-> hands[next(q)]]}

\* C29: the view created for player p holds p, the public state and, when
\* p's seen flag is true, p's hand; the hand is absent while the flag is
\* false.  Server states that differ only in the hands of the other players,
\* and in p's own hand while p has not seen it, give the same view.
C29_ViewHidesOtherHands ==
  \A p \in Players :
    LET v == create_view(p)
    IN /\ v.player = p
       /\ v.public_state = public_state
       /\ get_hand(v) = IF public_state.seen_cards[p]
                        THEN Some(hands[p]) ELSE None
       /\ \A h \in OtherHandsChanged(p) : ViewWith(p, h) = v
       /\ ~public_state.seen_cards[p]
            => \A h \in AllHandsChanged : ViewWith(p, h) = v

\* C29 witness: in the middle of a trick one player has seen a hand and
\* another has not; other hands than the server's exist for both.
C29_Witness ==
  /\ CardsInTrick(public_state.trick) > 0
  /\ \E p, q \in Players :
       /\ public_state.seen_cards[p] /\ ~public_state.seen_cards[q]
       /\ get_hand(create_view(p)) = Some(hands[p])
       /\ get_hand(create_view(q)) = None
       /\ \E h \in OtherHandsChanged(p) : h # hands
       /\ \E h \in AllHandsChanged : h[q] # hands[q]

\* The actions tried in player p's view: every kind of action, every bid a
\* client can name and the cards tried for p.
ActionsToTry(p) ==
  {ActWait, ActSeeCards, ActAllowNil, ActRejectNil}
    \cup {ActMakeBid(b) : b \in AllBids}
    \cup {ActPlayCard(c) : c \in CardsToTry(p)}

\* C30: get_allowed_actions returns exactly the actions perform_action
\* accepts: an action is in the set if and only if perform_action returns Ok
\* for it in the same view.
C30_AllowedIsAccepted ==
  \A p \in Players : \A a \in ActionsToTry(p) :
    a \in get_allowed_actions(create_view(p))
      <=> perform_action(create_view(p), a).ok

\* The actions offered to player p in the view of the server's state.
Allowed(p) == get_allowed_actions(create_view(p))

\* C31: every action get_allowed_actions returns is accepted by
\* perform_action in the same view; the set is empty when the game is over,
\* holds Wait exactly when the game waits on another player, and is exactly
\* {SeeCards} for a player awaited to play who has not seen their cards.
C31_AllowedActionsAccepted ==
  \A p \in Players :
    /\ \A a \in Allowed(p) : perform_action(create_view(p), a).ok
    /\ Status = GameOver => Allowed(p) = {}
    /\ ActWait \in Allowed(p) <=> (Status # GameOver /\ Status[2] # p)
    /\ (Status = WaitingForPlay(p) /\ ~public_state.seen_cards[p])
         => Allowed(p) = {ActSeeCards}

\* C31 witness: the player awaited to play has not seen their cards and is
\* offered SeeCards alone, while a player who has seen theirs is offered
\* Wait alone.
C31_Witness ==
  \E p, q \in Players :
    /\ Status = WaitingForPlay(p) /\ ~public_state.seen_cards[p]
    /\ Allowed(p) = {ActSeeCards}
    /\ public_state.seen_cards[q] /\ Allowed(q) = {ActWait}

\* The events tried for player p, and the action that gives each event.
EventsToTry(p) ==
  {EventSeeCards, EventApprovesNil(TRUE), EventApprovesNil(FALSE)}
    \cup {EventMakeBid(b) : b \in AllBids}
    \cup {EventPlayCard(c) : c \in CardsToTry(p)}
ActionOf(event) ==
  IF event = EventSeeCards THEN ActSeeCards
  ELSE IF event[1] = "MakeBid" THEN ActMakeBid(event[2])
  ELSE IF event[1] = "ApprovesNil"
       THEN (IF event[2] THEN ActAllowNil ELSE ActRejectNil)
  ELSE ActPlayCard(event[2])

\* The server's handling of event e of player p, and the views after it when
\* p's view performs the action and handles the response and the other
\* views handle the notification.
Served(p, e) == handle_event(public_state, hands, p, e)
Performed(p, e) == perform_action(views[p], ActionOf(e))
Answered(p, e) == handle_response(Performed(p, e).view, Served(p, e).response)
Notified(q, p, e) == handle_notification(views[q], p, e)
\* All applications of event e of player p succeed and leave every view
\* with the server's public state and, where visible, the server's hand.
AppliesEverywhere(p, e) ==
  /\ Performed(p, e).ok /\ Performed(p, e).event = Some(e)
  /\ Answered(p, e).ok
  /\ Answered(p, e).view
       = from_public_state(p, Served(p, e).state, Served(p, e).hands[p])
  /\ \A q \in Players \ {p} :
       /\ Notified(q, p, e).ok
       /\ Notified(q, p, e).view
            = from_public_state(q, Served(p, e).state, Served(p, e).hands[q])
\* A notification of a view's own player is rejected and changes nothing.
OwnNotificationRejected ==
  \A p \in Players : \A e \in EventsToTry(p) :
    /\ ~Notified(p, p, e).ok
    /\ Notified(p, p, e).view = views[p]

\* C32 as stated: for every event the server accepts, the acting player's
\* view applies it through perform_action and handle_response and the other
\* views through handle_notification without failure, after which every view
\* holds the server's public state and the server's hand of its player; a
\* notification of the view's own player is rejected and changes nothing.
C32_AcceptedEventsApply ==
  /\ \A p \in Players : \A e \in EventsToTry(p) :
       Served(p, e).ok => AppliesEverywhere(p, e)
  /\ OwnNotificationRejected

\* The events the server accepts and the acting player's view refuses: to
\* see cards already seen or when the game is over, and to play a card
\* without having seen the hand.
RefusedByView(p, e) ==
  \/ e = EventSeeCards
       /\ (public_state.seen_cards[p] \/ Status = GameOver)
  \/ e[1] = "PlayCard" /\ ~public_state.seen_cards[p]

\* C32, amended: every view is the view of the server's state, and every
\* event a view gave was accepted and applied without failure; of the events
\* the server accepts the acting view refuses exactly a SeeCards of a player
\* who sees their cards or after the game is over and a PlayCard of a player
\* who has not seen their cards, and every other one is applied everywhere
\* without failure, leaving the views in step with the server; a
\* notification of the view's own player is rejected and changes nothing.
C32_ViewsFollowServer ==
  /\ \A p \in Players : views[p] = create_view(p)
  /\ delivered # NoDelivery
       => (Unwrap(delivered).accepted /\ Unwrap(delivered).failed = {})
  /\ \A p \in Players : \A e \in EventsToTry(p) :
       Served(p, e).ok
         => /\ Performed(p, e).ok <=> ~RefusedByView(p, e)
            /\ ~RefusedByView(p, e) => AppliesEverywhere(p, e)
  /\ OwnNotificationRejected

\* C32 witness: the card that ended a round was played through a view; the
\* dealer has dealt again and no view shows a hand.
C32_Witness ==
  /\ delivered # NoDelivery /\ Unwrap(delivered).event[1] = "PlayCard"
  /\ Len(public_state.round_results) = 1
  /\ CardsInTrick(public_state.trick) = 0
  /\ Cardinality({p \in Players : IsSome(public_state.bids[p])}) = 0
  /\ hands \in Deals
  /\ \A p \in Players : get_hand(views[p]) = None

\* The Spades played into the tricks of the current round that are complete:
\* those no player holds and that do not lie in the live trick.  No round is
\* under way when the game is over.
SpadesInHands == SetSuite(Spade) \cap UNION {hands[p] : p \in Players}
SpadesTurned ==
  IF Status = GameOver THEN {}
  ELSE SetSuite(Spade) \ (SpadesInHands \cup CardsOnTable)

InternalOk(s) ==
  /\ CardsInTrick(s.trick) <= NumPlayers - 1
  /\ TrickGetStatus(s.trick)[1] = "Waiting"
  /\ SumTricks(s.tricks_taken) <= TricksPerRound - 1
  /\ get_status(s) # Panic
\* The call result r is not one of the internal errors and leaves a state
\* in which none can be taken.
NoInternalError(r) ==
  /\ r.err \notin {ErrNoBid, ErrPanic, ErrTrickWon}
  /\ InternalOk(r.state)

\* C34: the internal-error paths are not reachable through the public
\* operations: between calls the live trick holds at most three cards (it
\* waits for a player, it is never won), the trick counts sum to at most 12
\* and the status is computed without panic; no make-bid, confirm-nil or
\* play (checked or unchecked), whoever calls and whatever is named, returns
\* the missing-bid error or an internal error or leaves another kind of
\* state; and all four bids are present whenever a play completes a round.
C34_InternalErrorsUnreachable ==
  /\ InternalOk(public_state)
  /\ \A p \in Players :
       /\ \A b \in AllBids : NoInternalError(on_bid(public_state, p, b))
       /\ \A a \in BOOLEAN : NoInternalError(on_nil_approval(public_state, p, a))
       /\ NoInternalError([err |-> "", state |-> on_cards_seen(public_state, p)])
       /\ \A c \in CardsToTry(p) :
            LET r == on_card_played(public_state, p, c, hands[p])
            IN /\ NoInternalError(r)
               /\ (r.ok /\ ~SameRound(public_state, r.state)) =>
                    /\ get_bids(public_state).ok
                    /\ SumTricks(public_state.tricks_taken) = TricksPerRound - 1
       /\ \A c \in UncheckedCards(p) :
            LET r == unchecked_on_card_played(public_state, p, c)
            IN /\ NoInternalError(r)
               /\ (r.ok /\ ~SameRound(public_state, r.state)) =>
                    get_bids(public_state).ok

\* C34 witness: twelve tricks are counted and three cards lie in the live
\* trick, so the next play computes the round's results.
C34_Witness ==
  /\ Status[1] = "WaitingForPlay"
  /\ SumTricks(public_state.tricks_taken) = TricksPerRound - 1
  /\ CardsInTrick(public_state.trick) = NumPlayers - 1
  /\ response = RespOk("PlayCard")

\* The scores, the round history and the dealer of state s, and the live
\* trick, the trick counts and the trump-broken flag of state s.
Ledger(s) == <<s.scores, s.round_results, s.dealer>>
Table(s) == <<s.trick, s.tricks_taken, s.trump_broken>>
\* The history of s2 is the history of s, possibly with entries added.
HistoryKept(s, s2) ==
  /\ Len(s2.round_results) >= Len(s.round_results)
  /\ SubSeq(s2.round_results, 1, Len(s.round_results)) = s.round_results
\* The next accepted play in state s completes the round's 13th trick.
LastCardOfRound(s) ==
  /\ SumTricks(s.tricks_taken) = TricksPerRound - 1
  /\ CardsInTrick(s.trick) = NumPlayers - 1
\* State s2 differs from s in none of the six fields.
BoardKept(s, s2) == Ledger(s2) = Ledger(s) /\ Table(s2) = Table(s)
\* The frame of one call on the state, whoever calls and whatever is named.
FrameOfCalls ==
  LET s == public_state
  IN \A p \in Players :
       /\ \A b \in AllBids : BoardKept(s, on_bid(s, p, b).state)
       /\ \A a \in BOOLEAN : BoardKept(s, on_nil_approval(s, p, a).state)
       /\ BoardKept(s, on_cards_seen(s, p))
       /\ \A c \in CardsToTry(p) :
            LET r == on_card_played(s, p, c, hands[p])
            IN /\ HistoryKept(s, r.state)
               /\ (Ledger(r.state) # Ledger(s)) => (r.ok /\ LastCardOfRound(s))
               /\ (r.ok /\ LastCardOfRound(s)) =>
                    /\ Len(r.state.round_results) = Len(s.round_results) + 1
                    /\ r.state.dealer = next(s.dealer)
\* The frame of one step of the session.
FrameOfStep ==
  /\ HistoryKept(public_state, public_state')
  /\ (Ledger(public_state') # Ledger(public_state)) =>
       (response' = RespOk("PlayCard") /\ LastCardOfRound(public_state))
  /\ (response' # RespOk("PlayCard")) =>
       (Table(public_state') = Table(public_state))

C36_NilAfterSeeingCards ==
  \A p \in Players :
    /\ (Pending = Some(p) \/ public_state.bids[p] = Some(Nil))
         => public_state.seen_cards[p]
    /\ on_bid(public_state, p, Nil).ok => public_state.seen_cards[p]

\* The trick counts tried in a Take bid: every count up to one more than a
\* team may bid, the count that brings a partner's Take(BigTake) to 2^8, and
\* the largest count of 8 bits.
CountsToTry == (0..(MaxTeamBid + 1)) \cup {U8 - BigTake, U8 - 1}
\* The count a partnership has recorded in state s for the team of player p.
TeamTakes(s, p) ==
  LET count(q) == IF IsSome(s.bids[q]) /\ IsTake(Unwrap(s.bids[q]))
                  THEN Unwrap(s.bids[q])[2] ELSE 0
  IN count(p) + count(teammate(p))
\* In state s every recorded Take(n) has n <= 13 and partners' counts sum to
\* at most 13.
TakesWithinRound(s) ==
  \A p \in Players : TeamTakes(s, p) <= MaxTeamBid

\* C37: for every Take(n), n in 0..255, bid by the awaited bidder, the team
\* total with the partner's recorded Take is computed without 8-bit
\* overflow: make-bid returns the over-13 error whenever the true sum
\* exceeds 13 and never wraps, and every recorded Take(n) has n <= 13 with
\* partners' counts summing to at most 13.
C37_TeamTotalWithoutOverflow ==
  /\ TakesWithinRound(public_state)
  /\ \A p \in Players : \A n \in CountsToTry :
       LET r == on_bid(public_state, p, Take(n))
       IN /\ (Status = WaitingForBid(p)
                /\ n + TeamTakes(public_state, p) > MaxTeamBid)
               => (~r.ok /\ r.err = ErrOver13)
          /\ TakesWithinRound(r.state)

\* The cards the awaited player p may play in the live trick.
LegalCards(p) ==
  get_playable_cards(public_state.trick, hands[p], public_state.trump_broken)

\* C38: the server never deadlocks: in every reachable state other than
\* GameOver the awaited player has an accepted action. On a bidding turn
\* Take(0) is accepted; while a nil is pending the bidder's partner is
\* awaited and both the approval and the rejection are accepted; on a play
\* turn the awaited player's hand is not empty, the legal cards are a
\* non-empty subset of it and each of them is accepted.
C38_AwaitedPlayerCanAct ==
  /\ Status # Panic
  /\ \A p \in Players :
       /\ Status = WaitingForBid(p) => on_bid(public_state, p, Take(0)).ok
       /\ Status = WaitingForNilConfirmation(p) =>
            /\ IsSome(Pending) /\ p = teammate(Unwrap(Pending))
            /\ \A a \in BOOLEAN : on_nil_approval(public_state, p, a).ok
       /\ Status = WaitingForPlay(p) =>
            /\ hands[p] # {}
            /\ LegalCards(p) # {}
            /\ LegalCards(p) \subseteq hands[p]
            /\ \A c \in LegalCards(p) :
                 on_card_played(public_state, p, c, hands[p]).ok

\* C38 witness: the player awaited to play follows a lead in a suite of
\* which the hand is void, with one card left in the hand.
C38_Witness ==
  \E p \in Players :
    /\ Status = WaitingForPlay(p)
    /\ Cardinality(hands[p]) = 1
    /\ CardsInTrick(public_state.trick) > 0
    /\ \A c \in hands[p] :
         Some(SuiteOf(c)) # TrickGetSuite(public_state.trick)

\* The tricks completed in the round under way.
TricksDone == SumTricks(public_state.tricks_taken)
\* Player p has a card in the live trick.
HasPlayed(p) == IsSome(public_state.trick.cards[p])

\* C39: cards are conserved on the server when the dealer deals a partition
\* of the deck: before the game is over the four hands are pairwise
\* disjoint and disjoint from the cards of the live trick, and each hand
\* holds 13 cards less the tricks completed in the round under way, less one
\* if the player has played into the live trick.
C39_CardsConserved ==
  (Status # GameOver) =>
    /\ \A p, q \in Players : (p # q) => (hands[p] \cap hands[q] = {})
    /\ \A p \in Players :
         /\ hands[p] \cap CardsOnTable = {}
         /\ Cardinality(hands[p]) =
              TricksPerRound - TricksDone - (IF HasPlayed(p) THEN 1 ELSE 0)
    /\ Cardinality(CardsOnTable) = CardsInTrick(public_state.trick)

\* C39 witness: five tricks are done and two players have played into the
\* sixth, so two hands hold seven cards and two hold eight.
C39_Witness ==
  /\ Status[1] = "WaitingForPlay"
  /\ TricksDone = 5
  /\ Cardinality({p \in Players : HasPlayed(p)}) = 2
  /\ \E p \in Players : Cardinality(hands[p]) = 7

\* The accepted make-bid calls, the accepted confirm-nil calls and the
\* accepted plays of the round under way, read from state s: a recorded bid
\* and a pending Nil each took one make-bid and a rejected Nil took one
\* more; an approved and a rejected Nil each took one confirm-nil.
BidsAccepted(s) ==
  Cardinality({p \in Players : IsSome(s.bids[p])})
    + Cardinality({p \in Players : s.nil_rejected[p]})
    + (IF IsSome(s.pending_nil_player) THEN 1 ELSE 0)
NilsAnswered(s) ==
  Cardinality({p \in Players : s.bids[p] = Some(Nil)})
    + Cardinality({p \in Players : s.nil_rejected[p]})
PlaysAccepted(s) == NumPlayers * SumTricks(s.tricks_taken) + CardsInTrick(s.trick)
RoundCount(s) == <<BidsAccepted(s), NilsAnswered(s), PlaysAccepted(s)>>
\* The counts stay within the bounds of a round, and plays are accepted only
\* when bidding is over.
RoundCountBounded ==
  LET s == public_state
  IN /\ BidsAccepted(s) <= 2 * NumPlayers
     /\ NilsAnswered(s) <= NumPlayers
     /\ PlaysAccepted(s) <= NumCards - 1
     /\ (PlaysAccepted(s) > 0) => (Status[1] = "WaitingForPlay")
     /\ \A p \in Players :
          (Status = WaitingForPlay(p)) =>
            on_card_played(s, p, Lowest(LegalCards(p)), hands[p]).ok
     /\ \A p \in Players : \A a \in BOOLEAN :
          LET r == on_nil_approval(s, p, a)
          IN (r.ok /\ ~a) =>
               /\ ~s.nil_rejected[teammate(p)]
               /\ r.state.nil_rejected[teammate(p)]
               /\ ~on_bid(r.state, teammate(p), Nil).ok
\* Every accepted call adds one to its count and leaves the other counts,
\* but for the 52nd play, which ends the round and clears them.
RoundCountStep ==
  LET old == RoundCount(public_state)
      new == RoundCount(public_state')
  IN /\ (response' = RespOk("MakeBid")) =>
          (new = <<old[1] + 1, old[2], old[3]>> /\ old[3] = 0)
     /\ (response' = RespOk("ApprovesNil")) =>
          (new = <<old[1], old[2] + 1, old[3]>> /\ old[3] = 0)
     /\ (response' = RespOk("PlayCard")) =>
          IF old[3] = NumCards - 1
          THEN new = <<0, 0, 0>> /\ CompletesRound
          ELSE new = <<old[1], old[2], old[3] + 1>> /\ ~CompletesRound
     /\ (response' \notin {RespOk("MakeBid"), RespOk("ApprovesNil"),
                            RespOk("PlayCard")}) =>
          (new = old /\ ~CompletesRound)

\* C40: each round ends after a bounded number of accepted actions: a
\* player's Nil is rejected at most once in a round, so at most 8 make-bid
\* and 4 confirm-nil calls are accepted before the status is WaitingForPlay,
\* and exactly 52 accepted plays reach the round boundary; provided the
\* awaited player keeps taking accepted actions, every round that is begun
\* ends.
C40_RoundTerminates ==
  /\ []RoundCountBounded
  /\ [][RoundCountStep]_vars
  /\ \A k \in 0..(MaxTurnRounds - 1) :
       (Len(public_state.round_results) = k /\ Status # GameOver)
         ~> (Len(public_state.round_results) = k + 1)

\* C40 witness: every player had a Nil rejected, so that 8 make-bid and 4
\* confirm-nil calls were accepted, and 51 plays were accepted since: the
\* next play ends the round.
C40_Witness ==
  /\ RoundCount(public_state) = <<2 * NumPlayers, NumPlayers, NumCards - 1>>
  /\ response = RespOk("PlayCard")

=========================================================================
